---- MODULE Spec2Model ----
(***************************************************************************)
(* The heuristic debt-scoring engine of fund-services-architect:           *)
(*   src/backend/gitlab_debt_scanner_agent.py  (analyzers, calculator)     *)
(*   src/backend/api_server.py                 (local assessment, risk)    *)
(*   src/enhanced_java_dotnet.py               (enhanced structural scan)  *)
(*                                                                         *)
(* Numbers.  Scores are Python floats that are sums of penalties written   *)
(* with one decimal; they are kept here as integers in units of 1/10000    *)
(* (Pts(15) is 1.5).  Metrics that the code computes by a division are     *)
(* kept as exact fractions <<numerator, denominator>> and compared with    *)
(* the thresholds by cross-multiplication, so no rounding is introduced.   *)
(* Metric maps are Python dicts: functions whose DOMAIN is the set of keys *)
(* present, read with Get(m, key, default) like dict.get.                  *)
(***************************************************************************)
EXTENDS Integers, Sequences, FiniteSets, TLC

VARIABLES
    metrics,    \* RawMetrics: the four analyzers' maps for the repository
    debt,       \* the DebtMetrics last produced
    pc,         \* which operation produced debt
    results,    \* scan results carrying a score and its risk labels
    tree,       \* the files of the repository under a structural scan
    structure,  \* the metrics of the structural scans of tree
    commits,    \* the commit records handed to the OperationalAnalyzer
    collab,     \* the metrics of _analyze_team_collaboration
    scans,      \* the scans in progress: per scan, its repositories and locals
    SCAN_RESULTS_STORE,     \* api_server.SCAN_RESULTS_STORE
    RECOMMENDATIONS_STORE,  \* api_server.RECOMMENDATIONS_STORE
    assessments_db,         \* api_server.assessments_db
    running_assessments,    \* api_server.running_assessments
    response,   \* the HTTP responses sent, one per request served
    pipeline_records,   \* the pipeline records handed to the analyzers
    infra_metrics,      \* the infrastructure metrics and their score
    quality,    \* the metrics of analyze_code_quality of tree, per analyzer
    build_files,    \* the build files of a Java repository, in glob order
    java_metrics,   \* the metrics of JavaAnalyzer._analyze_build_configuration
    ops_metrics,    \* the metrics of the commit-message analyses of commits
    content,    \* the lines of the file handed to _calculate_max_nesting
    nesting,    \* the depths of the nesting loop over content, and its result
    layer_files,    \* the Java files of a repository, by architecture layer
    report      \* the report generate_report made of results

serviceVars ==
    <<scans, SCAN_RESULTS_STORE, RECOMMENDATIONS_STORE, assessments_db,
      running_assessments, response>>

analysisVars ==
    <<pipeline_records, infra_metrics, quality, build_files, java_metrics,
      ops_metrics>>

detailVars == <<content, nesting, layer_files, report>>

vars ==
    <<metrics, debt, pc, results, tree, structure, commits, collab,
      serviceVars, analysisVars, detailVars>>

----------------------------------------------------------------------------
(* Bounds of the model *)

MaxSecrets == 5     \* potential_hardcoded_secrets ranges over 0..MaxSecrets
MaxResults == 2     \* scan results recorded in one run
MaxFiles == 2       \* files in a scanned tree
MaxCommits == 3     \* commits in an enumerated history

----------------------------------------------------------------------------
(* Arithmetic helpers *)

Pts(tenths) == tenths * 1000

Min(a, b) == IF a < b THEN a ELSE b
Max(a, b) == IF a > b THEN a ELSE b

\* fractions <<n, d>> with d > 0
Frac(n, d) == <<n, d>>
FLt(r, n, d) == r[1] * d < n * r[2]       \* r < n/d
FGt(r, n, d) == r[1] * d > n * r[2]       \* r > n/d
FEq(r, s) == r[1] * s[2] = s[1] * r[2]

\* a standard deviation is kept as its square, a fraction v; it exceeds t >= 0
\* exactly when v > t * t
RootGt(v, t) == FGt(v, t * t, 1)

\* dict.get(key, default)
Get(m, k, d) == IF k \in DOMAIN m THEN m[k] ELSE d

EmptyMap == <<>>

\* the partial maps that say nothing or one thing about key k
Opt(k, vals) == {EmptyMap} \cup {k :> v : v \in vals}
Join(A, B) == {a @@ b : a \in A, b \in B}

----------------------------------------------------------------------------
(* DebtScoreCalculator *)

\* weights that favour architecture by five points more
weightsSkewed ==
    [code_quality |-> 25, architecture |-> 35, infrastructure |-> 25, operations |-> 20]

\* self.weights, in percent
weights ==
    [code_quality |-> 25, architecture |-> 30, infrastructure |-> 25, operations |-> 20]

\* a calculator that forgets the cap
ClampNone(score) == score

\* return min(score, 4.0)
Clamp(score) == Min(score, Pts(40))

\* the lowest test-ratio tier charged as the second one
TestCoveragePenaltyFlat(m) ==
    IF FLt(Get(m, "test_to_code_ratio", Frac(0, 1)), 3, 10) THEN Pts(10) ELSE 0

TestCoveragePenalty(m) ==
    LET test_ratio == Get(m, "test_to_code_ratio", Frac(0, 1))
    IN  IF FLt(test_ratio, 1, 10) THEN Pts(15)
        ELSE IF FLt(test_ratio, 3, 10) THEN Pts(10)
        ELSE IF FLt(test_ratio, 5, 10) THEN Pts(5)
        ELSE 0

\* the file-size tiers with the thresholds 500 and 300 swapped for 1000 and 500
FileSizePenaltyLate(m) ==
    LET avg_lines == Get(m, "avg_lines_per_file", Frac(0, 1))
    IN  IF FGt(avg_lines, 1000, 1) THEN Pts(10)
        ELSE IF FGt(avg_lines, 500, 1) THEN Pts(5)
        ELSE 0

FileSizePenalty(m) ==
    LET avg_lines == Get(m, "avg_lines_per_file", Frac(0, 1))
    IN  IF FGt(avg_lines, 500, 1) THEN Pts(10)
        ELSE IF FGt(avg_lines, 300, 1) THEN Pts(5)
        ELSE 0

\* total_files = max(metrics.get('code_files', 1), 1)
TotalFiles(m) == Max(Get(m, "code_files", 1), 1)

LargeFilesPenalty(m) ==
    LET large_file_ratio == Frac(Get(m, "large_files_count", 0), TotalFiles(m))
    IN  IF FGt(large_file_ratio, 3, 10) THEN Pts(10)
        ELSE IF FGt(large_file_ratio, 1, 10) THEN Pts(5)
        ELSE 0

DeepNestingPenalty(m) ==
    LET deep_nesting_ratio == Frac(Get(m, "deep_nesting_files", 0), TotalFiles(m))
    IN  IF FGt(deep_nesting_ratio, 2, 10) THEN Pts(5) ELSE 0

LintPenalty(m) ==
    IF "python_flake8_issues" \in DOMAIN m /\ m["python_flake8_issues"] > 0
    THEN LET issues_per_file == Frac(m["python_flake8_issues"], TotalFiles(m))
         IN  IF FGt(issues_per_file, 5, 1) THEN Pts(10)
             ELSE IF FGt(issues_per_file, 2, 1) THEN Pts(5)
             ELSE 0
    ELSE 0

DocumentationPenalty(m) ==
    LET doc_ratio == Get(m, "code_documentation_ratio", Frac(1, 1))
    IN  IF FLt(doc_ratio, 2, 10) THEN Pts(10)
        ELSE IF FLt(doc_ratio, 5, 10) THEN Pts(5)
        ELSE 0

_calculate_code_quality_score(m) ==
    Clamp(TestCoveragePenalty(m) + FileSizePenalty(m) + LargeFilesPenalty(m)
          + DeepNestingPenalty(m) + LintPenalty(m) + DocumentationPenalty(m))

ArchPatterns ==
    {"has_mvc_pattern", "has_layered_pattern", "has_microservices_pattern",
     "has_clean_architecture_pattern"}

_calculate_architecture_score(m) ==
    LET max_depth == Get(m, "max_directory_depth", 0)
        pDepth == IF max_depth > 8 THEN Pts(10)
                  ELSE IF max_depth > 6 THEN Pts(5)
                  ELSE 0
        has_pattern == \E p \in ArchPatterns : Get(m, p, FALSE)
        pPattern == IF ~has_pattern THEN Pts(10) ELSE 0
        pConfig == IF ~Get(m, "has_docker_config", FALSE)
                      /\ ~Get(m, "has_kubernetes_config", FALSE)
                   THEN Pts(5) ELSE 0
        pApi == IF ~Get(m, "has_api_specifications", FALSE) THEN Pts(5) ELSE 0
        pReadme == IF ~Get(m, "has_readme", FALSE) THEN Pts(10)
                   ELSE IF Get(m, "readme_length", 0) < 500 THEN Pts(5)
                   ELSE 0
        pDocs == IF Get(m, "documentation_files", 0) < 2 THEN Pts(5) ELSE 0
    IN  Clamp(pDepth + pPattern + pConfig + pApi + pReadme + pDocs)

MonitoringConfigs ==
    {"has_prometheus_config", "has_grafana_config", "has_elasticsearch_config"}

\* the success rate read with 0 for a missing key
CicdPenaltyDefaultZero(m) ==
    IF ~Get(m, "has_cicd_config", FALSE) THEN Pts(20)
    ELSE LET success_rate == Get(m, "pipeline_success_rate", Frac(0, 1))
         IN  IF FLt(success_rate, 7, 10) THEN Pts(15)
             ELSE IF FLt(success_rate, 9, 10) THEN Pts(5)
             ELSE 0

CicdPenalty(m) ==
    IF ~Get(m, "has_cicd_config", FALSE) THEN Pts(20)
    ELSE LET success_rate == Get(m, "pipeline_success_rate", Frac(1, 1))
         IN  IF FLt(success_rate, 7, 10) THEN Pts(15)
             ELSE IF FLt(success_rate, 9, 10) THEN Pts(5)
             ELSE 0

\* the penalty without its cap
SecretsPenaltyUncapped(m) ==
    LET potential_secrets == Get(m, "potential_hardcoded_secrets", 0)
    IN  IF potential_secrets > 0 THEN potential_secrets * Pts(5) ELSE 0

SecretsPenalty(m) ==
    LET potential_secrets == Get(m, "potential_hardcoded_secrets", 0)
    IN  IF potential_secrets > 0 THEN Min(potential_secrets * Pts(5), Pts(20)) ELSE 0

\* a missing container charged half
ContainerPenaltyHalf(m) == IF ~Get(m, "is_containerized", FALSE) THEN Pts(5) ELSE 0

ContainerPenalty(m) == IF ~Get(m, "is_containerized", FALSE) THEN Pts(10) ELSE 0

_calculate_infrastructure_score(m) ==
    LET pIgnore == IF ~Get(m, "has_gitignore", FALSE) THEN Pts(5) ELSE 0
        has_monitoring == \E c \in MonitoringConfigs : Get(m, c, FALSE)
        pMonitor == IF ~has_monitoring THEN Pts(10) ELSE 0
        logging_ratio == Get(m, "logging_usage_ratio", Frac(0, 1))
        pLogging == IF FLt(logging_ratio, 3, 10) THEN Pts(5) ELSE 0
    IN  Clamp(CicdPenalty(m) + SecretsPenalty(m) + pIgnore + ContainerPenalty(m)
              + pMonitor + pLogging)

\* the tiers tested from the highest threshold down
MaintenancePenaltyTopFirst(m) ==
    LET maintenance_percentage == Get(m, "maintenance_commit_percentage", Frac(0, 1))
    IN  IF FGt(maintenance_percentage, 70, 1) THEN Pts(20)
        ELSE IF FGt(maintenance_percentage, 60, 1) THEN Pts(15)
        ELSE IF FGt(maintenance_percentage, 40, 1) THEN Pts(10)
        ELSE 0

MaintenancePenalty(m) ==
    LET maintenance_percentage == Get(m, "maintenance_commit_percentage", Frac(0, 1))
    IN  IF FGt(maintenance_percentage, 60, 1) THEN Pts(15)
        ELSE IF FGt(maintenance_percentage, 40, 1) THEN Pts(10)
        ELSE IF FGt(maintenance_percentage, 70, 1) THEN Pts(20)
        ELSE 0

\* a missing contributor count read as no contributor
SingleContributorPenaltyNoDefault(m) ==
    IF Get(m, "unique_contributors", 0) = 1 THEN Pts(10) ELSE 0

\* contributors = metrics.get('unique_contributors', 1)
SingleContributorPenalty(m) ==
    IF Get(m, "unique_contributors", 1) = 1 THEN Pts(10) ELSE 0

_calculate_operations_score(m) ==
    LET commits_per_week == Get(m, "commits_per_week", Frac(0, 1))
        pVelocity == IF FLt(commits_per_week, 1, 1) THEN Pts(15)
                     ELSE IF FLt(commits_per_week, 3, 1) THEN Pts(5)
                     ELSE 0
        deployments_per_week == Get(m, "deployments_per_week", Frac(0, 1))
        pDeploy == IF FLt(deployments_per_week, 1, 4) THEN Pts(15)
                   ELSE IF FLt(deployments_per_week, 1, 1) THEN Pts(10)
                   ELSE 0
        gini == Get(m, "contribution_gini_coefficient", Frac(0, 1))
        pGini == IF FGt(gini, 8, 10) THEN Pts(5) ELSE 0
        deployment_regularity == Get(m, "deployment_regularity", Frac(0, 1))
        pRegular == IF RootGt(deployment_regularity, 14) THEN Pts(5) ELSE 0
    IN  Clamp(pVelocity + pDeploy + MaintenancePenalty(m) + SingleContributorPenalty(m) + pGini + pRegular)

\* the weighted overall score; the division is exact for scores that are
\* multiples of 0.0004, which all sums of the penalties above are
WeightedOverall(code, arch, infra, ops) ==
    (code * weights.code_quality + arch * weights.architecture
       + infra * weights.infrastructure + ops * weights.operations) \div 100

DebtMetrics(code, arch, infra, ops, overall, raw) ==
    [code_quality_score |-> code, architecture_score |-> arch,
     infrastructure_score |-> infra, operations_score |-> ops,
     overall_score |-> overall, raw_metrics |-> raw]

calculate_debt_score(m) ==
    LET code_score == _calculate_code_quality_score(Get(m, "code_analysis", EmptyMap))
        arch_score == _calculate_architecture_score(Get(m, "architecture_analysis", EmptyMap))
        infra_score == _calculate_infrastructure_score(Get(m, "infrastructure_analysis", EmptyMap))
        ops_score == _calculate_operations_score(Get(m, "operations_analysis", EmptyMap))
    IN  DebtMetrics(code_score, arch_score, infra_score, ops_score,
                    WeightedOverall(code_score, arch_score, infra_score, ops_score), m)


----------------------------------------------------------------------------
(* Risk level: the same step function is written twice in the sources *)

\* GitLabDebtScannerAgent._get_risk_level
_get_risk_level(score) ==
    IF score <= Pts(10) THEN "Low"
    ELSE IF score <= Pts(20) THEN "Medium"
    ELSE IF score <= Pts(30) THEN "High"
    ELSE "Critical"

\* the thresholds taken as exclusive upper bounds
_get_risk_level_strict(score) ==
    IF score < Pts(10) THEN "Low"
    ELSE IF score < Pts(20) THEN "Medium"
    ELSE IF score < Pts(30) THEN "High"
    ELSE "Critical"

\* api_server._get_risk_level_from_score
_get_risk_level_from_score(score) ==
    IF score <= Pts(10) THEN "Low"
    ELSE IF score <= Pts(20) THEN "Medium"
    ELSE IF score <= Pts(30) THEN "High"
    ELSE "Critical"

----------------------------------------------------------------------------
(* OperationalAnalyzer.                                                    *)
(* A commit record is a dict with the optional keys "author_email" and     *)
(* "message"; a message is kept as the set of words of its lower-cased     *)
(* text, and "keyword in message" is substring search over those words.    *)

\* Python's `kw in message` for the words the keyword lists can meet
Sub(kw, w) ==
    \/ kw = w
    \/ kw = "fix" /\ w = "hotfix"
    \/ kw = "feat" /\ w = "feature"

InMessage(kw, commit) == \E w \in Get(commit, "message", {}) : Sub(kw, w)

commit_types == <<"fix", "feat", "refactor", "test", "docs", "chore">>

\* the first commit type whose name occurs in the message, 0 when none does
FirstType(commit) ==
    LET hits == {i \in 1..Len(commit_types) : InMessage(commit_types[i], commit)}
    IN  IF hits = {} THEN 0 ELSE CHOOSE i \in hits : \A j \in hits : i <= j

TypeCount(cs, t) == Cardinality({i \in 1..Len(cs) : FirstType(cs[i]) = t})

_analyze_development_velocity(cs) ==
    IF cs = <<>>
    THEN ("commits_per_week" :> Frac(0, 1)) @@ ("avg_commit_size" :> 0)
    ELSE ("commits_per_week" :> Frac(Len(cs) * 7, 90))
         @@ ("fix_commit_ratio" :> Frac(TypeCount(cs, 1), Len(cs)))
         @@ ("feature_commit_ratio" :> Frac(TypeCount(cs, 2), Len(cs)))
         @@ ("refactor_commit_ratio" :> Frac(TypeCount(cs, 3), Len(cs)))

\* the keys of a Python dict in insertion order are not needed: the counts
\* are sorted before use.  SortedCounts(f) is sorted(f.values()).
RECURSIVE SortedCounts(_)
SortedCounts(f) ==
    IF DOMAIN f = {} THEN <<>>
    ELSE LET k == CHOOSE x \in DOMAIN f : \A y \in DOMAIN f : f[x] <= f[y]
         IN  <<f[k]>> \o SortedCounts([x \in DOMAIN f \ {k} |-> f[x]])

RECURSIVE SumSeq(_)
SumSeq(s) == IF s = <<>> THEN 0 ELSE Head(s) + SumSeq(Tail(s))

\* sum((2 * i + 1) * commit_counts[i] for i in range(n)), i counted from 0
GiniCumsum(counts) ==
    SumSeq([j \in 1..Len(counts) |-> (2 * (j - 1) + 1) * counts[j]])

\* cumsum / (n * sum(commit_counts)) - (n + 1) / n, as one fraction
GiniOf(counts) ==
    LET n == Len(counts)
        total == SumSeq(counts)
    IN  Frac(GiniCumsum(counts) - (n + 1) * total, n * total)

\* contributor_commits: commits per author_email, 'unknown' when absent
ContributorCommits(cs) ==
    LET emails == {Get(cs[i], "author_email", "unknown") : i \in 1..Len(cs)}
    IN  [e \in emails |->
            Cardinality({i \in 1..Len(cs) : Get(cs[i], "author_email", "unknown") = e})]

_analyze_team_collaboration(cs) ==
    IF cs = <<>> THEN EmptyMap
    ELSE LET contributors ==
                 {cs[i]["author_email"] : i \in {j \in 1..Len(cs) : "author_email" \in DOMAIN cs[j]}}
             commit_counts == SortedCounts(ContributorCommits(cs))
         IN  ("unique_contributors" :> Cardinality(contributors))
             @@ (IF Cardinality(contributors) > 1 /\ Len(commit_counts) > 1
                 THEN "contribution_gini_coefficient" :> GiniOf(commit_counts)
                 ELSE EmptyMap)

maintenance_keywords == {"fix", "bug", "patch", "hotfix", "security", "update", "upgrade"}
feature_keywords == {"feat", "feature", "add", "implement", "new"}
refactor_keywords == {"refactor", "cleanup", "improve", "optimize", "restructure"}

AnyKeyword(kws, commit) == \E kw \in kws : InMessage(kw, commit)

\* the chain with the feature keywords tested first
CommitCategoryFeatureFirst(commit) ==
    IF AnyKeyword(feature_keywords, commit) THEN "feature"
    ELSE IF AnyKeyword(maintenance_keywords, commit) THEN "maintenance"
    ELSE IF AnyKeyword(refactor_keywords, commit) THEN "refactor"
    ELSE "none"

\* "maintenance", "feature", "refactor" or "none": the if / elif / elif chain
CommitCategory(commit) ==
    IF AnyKeyword(maintenance_keywords, commit) THEN "maintenance"
    ELSE IF AnyKeyword(feature_keywords, commit) THEN "feature"
    ELSE IF AnyKeyword(refactor_keywords, commit) THEN "refactor"
    ELSE "none"

CategoryCount(cs, c) == Cardinality({i \in 1..Len(cs) : CommitCategory(cs[i]) = c})

_analyze_maintenance_patterns(cs) ==
    IF cs = <<>> THEN EmptyMap
    ELSE ("maintenance_commit_percentage" :> Frac(CategoryCount(cs, "maintenance") * 100, Len(cs)))
         @@ ("feature_commit_percentage" :> Frac(CategoryCount(cs, "feature") * 100, Len(cs)))
         @@ ("refactor_commit_percentage" :> Frac(CategoryCount(cs, "refactor") * 100, Len(cs)))


(* A pipeline record is a dict with "status" and the optional key          *)
(* "created_at": a day number, or -1 for a text fromisoformat rejects.     *)

Successful(pipelines) == SelectSeq(pipelines, LAMBDA p : Get(p, "status", "") = "success")

\* the dates that parse, sorted
PipelineDates(ps) ==
    SortSeq(
        LET dated == SelectSeq(ps, LAMBDA p : "created_at" \in DOMAIN p /\ p["created_at"] >= 0)
        IN  [i \in 1..Len(dated) |-> dated[i]["created_at"]],
        LAMBDA a, b : a < b)

Intervals(dates) == [i \in 1..(Len(dates) - 1) |-> dates[i + 1] - dates[i]]

\* statistics.stdev(xs) squared: the sample variance, as a fraction
Variance(xs) ==
    LET k == Len(xs)
        s1 == SumSeq(xs)
        s2 == SumSeq([i \in 1..k |-> xs[i] * xs[i]])
    IN  Frac(k * s2 - s1 * s1, k * (k - 1))

_analyze_release_patterns(pipelines, cs) ==
    LET successful_pipelines == Successful(pipelines)
        pipeline_dates == PipelineDates(successful_pipelines)
        intervals == Intervals(pipeline_dates)
    IN  IF successful_pipelines = <<>> THEN EmptyMap
        ELSE ("deployments_per_week" :> Frac(Len(successful_pipelines), 4))
             @@ (IF Len(pipeline_dates) > 1
                 THEN ("avg_deployment_interval_days" :> Frac(SumSeq(intervals), Len(intervals)))
                      @@ ("deployment_regularity" :>
                            (IF Len(intervals) > 1 THEN Variance(intervals) ELSE Frac(0, 1)))
                 ELSE EmptyMap)

\* metrics.update(...) four times: a later update overrides an earlier key
analyze_operations(cs, pipelines) ==
    _analyze_maintenance_patterns(cs)
    @@ _analyze_team_collaboration(cs)
    @@ _analyze_release_patterns(pipelines, cs)
    @@ _analyze_development_velocity(cs)

----------------------------------------------------------------------------
(* InfrastructureAnalyzer._analyze_cicd: what the pipeline records add to  *)
(* the file-derived metrics                                                *)

\* avg_pipeline_duration, which no score reads, is left out of the records
PipelineKeys ==
    {"pipeline_success_rate", "pipeline_failure_rate", "recent_pipeline_count",
     "avg_pipeline_duration"}

StatusCount(pipelines, st) ==
    Cardinality({i \in 1..Len(pipelines) : Get(pipelines[i], "status", "") = st})

PipelineMetrics(pipelines) ==
    IF pipelines = <<>> THEN EmptyMap
    ELSE ("pipeline_success_rate" :> Frac(StatusCount(pipelines, "success"), Max(Len(pipelines), 1)))
         @@ ("pipeline_failure_rate" :> Frac(StatusCount(pipelines, "failed"), Max(Len(pipelines), 1)))
         @@ ("recent_pipeline_count" :> Len(pipelines))

\* analyze_infrastructure(repo_path, project_info, pipelines) for a tree whose
\* file-derived infrastructure metrics are fileMetrics
analyze_infrastructure(fileMetrics, pipelines) ==
    PipelineMetrics(pipelines) @@ [k \in DOMAIN fileMetrics \ PipelineKeys |-> fileMetrics[k]]


----------------------------------------------------------------------------
(* Inputs of the calculator: for every key the calculator reads, the key   *)
(* absent or one value of each tier of its penalty, boundaries included    *)

CodeInputs ==
    Join(Opt("test_to_code_ratio", {Frac(0, 1), Frac(1, 10), Frac(3, 10), Frac(1, 2)}),
    Join(Opt("avg_lines_per_file", {Frac(300, 1), Frac(500, 1), Frac(600, 1), Frac(1000, 1)}),
    Join(Opt("code_files", {10}),
    Join(Opt("large_files_count", {1, 2, 4}),
    Join(Opt("deep_nesting_files", {2, 3}),
    Join(Opt("python_flake8_issues", {-1, 0, 30, 60}),
         Opt("code_documentation_ratio", {Frac(1, 10), Frac(1, 5), Frac(1, 2)})))))))

ArchInputs ==
    Join(Opt("max_directory_depth", {7, 9}),
    Join(Opt("has_mvc_pattern", {FALSE, TRUE}),
    Join(Opt("has_layered_pattern", {TRUE}),
    Join(Opt("has_clean_architecture_pattern", {TRUE}),
    Join(Opt("has_docker_config", {TRUE}),
    Join(Opt("has_kubernetes_config", {TRUE}),
    Join(Opt("has_api_specifications", {TRUE}),
    Join(Opt("has_readme", {FALSE, TRUE}),
    Join(Opt("readme_length", {499, 500}),
         Opt("documentation_files", {2}))))))))))

InfraInputs ==
    Join(Opt("has_cicd_config", {FALSE, TRUE}),
    Join(Opt("pipeline_success_rate", {Frac(1, 2), Frac(7, 10), Frac(9, 10)}),
    Join(Opt("potential_hardcoded_secrets", 0..MaxSecrets),
    Join(Opt("has_gitignore", {TRUE}),
    Join(Opt("is_containerized", {FALSE, TRUE}),
    Join(Opt("has_prometheus_config", {TRUE}),
    Join(Opt("has_grafana_config", {TRUE}),
         Opt("logging_usage_ratio", {Frac(3, 10)}))))))))

OpsInputs ==
    Join(Opt("commits_per_week", {Frac(1, 1), Frac(3, 1)}),
    Join(Opt("deployments_per_week", {Frac(1, 4), Frac(1, 1)}),
    Join(Opt("maintenance_commit_percentage", {Frac(40, 1), Frac(50, 1), Frac(65, 1), Frac(75, 1)}),
    Join(Opt("unique_contributors", {1, 2}),
    Join(Opt("contribution_gini_coefficient", {Frac(-1, 5), Frac(4, 5), Frac(9, 10)}),
         Opt("deployment_regularity", {Frac(196, 1), Frac(225, 1)}))))))

\* one input map for every score the inputs of a category can produce
Rep(inputs, Score(_)) ==
    {CHOOSE m \in inputs : Score(m) = s : s \in {Score(m) : m \in inputs}}

RawMetrics(code, arch, infra, ops) ==
    ("code_analysis" :> code) @@ ("architecture_analysis" :> arch)
    @@ ("infrastructure_analysis" :> infra) @@ ("operations_analysis" :> ops)

\* The scenario repository: 10 code files, no test file, 600 lines per file
\* on average, no README, no CI configuration, no Dockerfile.  Its code
\* analysis has the keys CodeAnalyzer.analyze_code_quality writes: the file
\* structure, the complexity counts over the 10 files, and the lint count
\* when the tree holds Python; code_documentation_ratio is a key of the
\* architecture analysis, not of the code analysis.
ScenarioStructure ==
    ("total_files" :> 10) @@ ("code_files" :> 10) @@ ("test_files" :> 0)
    @@ ("config_files" :> 0) @@ ("total_lines_of_code" :> 6000)
    @@ ("test_to_code_ratio" :> Frac(0, 10)) @@ ("avg_lines_per_file" :> Frac(6000, 10))

ScenarioCodeInputs ==
    {ScenarioStructure @@ ("large_files_count" :> l) @@ ("deep_nesting_files" :> d) @@ f :
        l \in {0, 1, 2, 3, 4, 10}, d \in {0, 2, 3, 10},
        f \in Opt("python_flake8_issues", {-1, 0, 20, 30, 60})}

ScenarioArch == ("has_readme" :> FALSE) @@ ("documentation_files" :> 0)
ScenarioInfra ==
    ("has_cicd_config" :> FALSE) @@ ("cicd_config_count" :> 0)
    @@ ("has_dockerfile" :> FALSE) @@ ("is_containerized" :> FALSE)

IsScenario(m) ==
    /\ m # EmptyMap
    /\ m["architecture_analysis"] = ScenarioArch
    /\ m["infrastructure_analysis"] = ScenarioInfra
    /\ \A k \in DOMAIN ScenarioStructure :
          k \in DOMAIN m["code_analysis"] /\ m["code_analysis"][k] = ScenarioStructure[k]

RepCode == Rep(CodeInputs, _calculate_code_quality_score)
RepArch == Rep(ArchInputs, _calculate_architecture_score)
RepInfra == Rep(InfraInputs, _calculate_infrastructure_score)
RepOps == Rep(OpsInputs, _calculate_operations_score)

\* every combination of category scores; for each category every input map
\* beside empty maps for the other categories; and no category at all
IsMetricsInput(m) ==
    \/ \E c \in RepCode, a \in RepArch, i \in RepInfra, o \in RepOps :
          m = RawMetrics(c, a, i, o)
    \/ \E c \in CodeInputs : m = RawMetrics(c, EmptyMap, EmptyMap, EmptyMap)
    \/ \E a \in ArchInputs : m = RawMetrics(EmptyMap, a, EmptyMap, EmptyMap)
    \/ \E i \in InfraInputs : m = RawMetrics(EmptyMap, EmptyMap, i, EmptyMap)
    \/ \E o \in OpsInputs : m = RawMetrics(EmptyMap, EmptyMap, EmptyMap, o)
    \/ \E c \in ScenarioCodeInputs : m = RawMetrics(c, ScenarioArch, ScenarioInfra, EmptyMap)
    \/ m = EmptyMap

----------------------------------------------------------------------------
(* The scoring state machine: a repository's metrics are scored either by  *)
(* scan_single_project or by TechDebtAPI._analyze_local_project            *)

NoDebt == DebtMetrics(0, 0, 0, 0, 0, EmptyMap)      \* DebtMetrics()

\* the module-level stores of api_server as created, and no scan started
IdleStores ==
    /\ SCAN_RESULTS_STORE = <<>>
    /\ RECOMMENDATIONS_STORE = <<>>
    /\ assessments_db = EmptyMap
    /\ running_assessments = EmptyMap
    /\ response = <<>>

\* no file, layer list or result list handed to the later analyses
IdleDetail ==
    /\ content = <<>>
    /\ nesting = EmptyMap
    /\ layer_files = EmptyMap
    /\ report = EmptyMap

IdleService ==
    /\ scans = EmptyMap
    /\ IdleStores
    /\ IdleDetail

\* no analyzer of the later sections has run
IdleAnalysis ==
    /\ pipeline_records = <<>>
    /\ infra_metrics = EmptyMap
    /\ quality = EmptyMap
    /\ build_files = <<>>
    /\ java_metrics = EmptyMap
    /\ ops_metrics = EmptyMap

IdleRest ==
    /\ results = <<>>
    /\ tree = <<>>
    /\ structure = EmptyMap
    /\ commits = <<>>
    /\ collab = EmptyMap
    /\ IdleService
    /\ IdleAnalysis

Init ==
    /\ IsMetricsInput(metrics)
    /\ debt = NoDebt
    /\ pc = "input"
    /\ IdleRest

\* scan_single_project: debt_calculator.calculate_debt_score(all_metrics)
CalculateDebtScore ==
    /\ pc = "input"
    /\ debt' = calculate_debt_score(metrics)
    /\ pc' = "scored"
    /\ UNCHANGED <<metrics, results, tree, structure, commits, collab, serviceVars, analysisVars, detailVars>>

\* the except branch of _analyze_local_project
FallbackMetrics ==
    DebtMetrics(Pts(65), Pts(70), Pts(60), Pts(55), Pts(62) + 500, EmptyMap)

\* what the four analyzers return for a local project: no pipelines, no commits
LocalMetrics(m) ==
    RawMetrics(Get(m, "code_analysis", EmptyMap),
               Get(m, "architecture_analysis", EmptyMap),
               analyze_infrastructure(Get(m, "infrastructure_analysis", EmptyMap), <<>>),
               analyze_operations(<<>>, <<>>))

_analyze_local_project(m, raises) ==
    IF raises THEN FallbackMetrics ELSE calculate_debt_score(LocalMetrics(m))

\* TechDebtAPI._analyze_local_project on an existing path; an analyzer may raise
AnalyzeLocalProject ==
    /\ pc = "input"
    /\ \E raises \in BOOLEAN :
          /\ debt' = _analyze_local_project(metrics, raises)
          /\ pc' = IF raises THEN "fallback" ELSE "local"
    /\ UNCHANGED <<metrics, results, tree, structure, commits, collab, serviceVars, analysisVars, detailVars>>

Next == CalculateDebtScore \/ AnalyzeLocalProject

Spec == Init /\ [][Next]_vars


----------------------------------------------------------------------------
(* Risk labels: scan_projects labels a result with _get_risk_level, the API *)
(* scans label theirs with _get_risk_level_from_score                       *)

\* overall scores: every tenth from 0.0 to 4.0, and 0.025 either side of the
\* three thresholds (overall scores are multiples of 0.025)
ScoreGrid ==
    {Pts(k) : k \in 0..40}
    \cup {Pts(t) + d : t \in {10, 20, 30}, d \in {-250, 250}}

IdleScoring ==
    /\ metrics = EmptyMap
    /\ debt = NoDebt
    /\ pc = "input"
    /\ IdleService
    /\ IdleAnalysis

InitRisk ==
    /\ results = <<>>
    /\ IdleScoring
    /\ tree = <<>>
    /\ structure = EmptyMap
    /\ commits = <<>>
    /\ collab = EmptyMap

\* GitLabDebtScannerAgent.scan_projects: the result of one scanned project
AgentResult ==
    /\ Len(results) < MaxResults
    /\ \E s \in ScoreGrid :
          results' = Append(results,
              [source |-> "agent", overall_score |-> s, risk_level |-> _get_risk_level(s)])
    /\ UNCHANGED <<metrics, debt, pc, tree, structure, commits, collab, serviceVars, analysisVars, detailVars>>

\* api_server: the scan result of _scan_single_repository / scan_github_repository
ApiResult ==
    /\ Len(results) < MaxResults
    /\ \E s \in ScoreGrid :
          results' = Append(results,
              [source |-> "api", overall_score |-> s,
               risk_level |-> _get_risk_level_from_score(s)])
    /\ UNCHANGED <<metrics, debt, pc, tree, structure, commits, collab, serviceVars, analysisVars, detailVars>>

NextRisk == AgentResult \/ ApiResult

SpecRisk == InitRisk /\ [][NextRisk]_vars

----------------------------------------------------------------------------
(* The structural scan, _analyze_file_structure of CodeAnalyzer and of      *)
(* EnhancedCodeAnalyzer.  A file is its suffix, the shape of its path, the  *)
(* directory it lies in, its line count and whether open() succeeds.        *)

Analyzers == {"CodeAnalyzer", "EnhancedCodeAnalyzer"}

code_extensions(a) ==
    IF a = "CodeAnalyzer"
    THEN {".py", ".js", ".ts", ".java", ".cpp", ".c", ".cs", ".rb", ".go", ".php"}
    ELSE {".py", ".js", ".ts", ".java", ".cs", ".cpp", ".c", ".rb", ".go", ".php",
          ".scala", ".kt"}

config_extensions(a) ==
    IF a = "CodeAnalyzer"
    THEN {".yml", ".yaml", ".json", ".xml", ".toml", ".ini", ".cfg"}
    ELSE {".yml", ".yaml", ".json", ".xml", ".toml", ".ini", ".cfg", ".properties"}

\* path shapes: "plain" (src/app.py), "test_lower" (tests/test_app.py),
\* "Test_upper" (Test_App.py), "TestSuffix" (AppTest.java).
\* CodeAnalyzer matches its patterns against the lower-cased path,
\* EnhancedCodeAnalyzer against the path as it is, with 'Test.java' and
\* 'Tests.cs' added to the patterns.
MatchesTestPattern(a, f) ==
    IF a = "CodeAnalyzer"
    THEN f.name \in {"test_lower", "Test_upper"}
    ELSE f.name = "test_lower" \/ (f.name = "TestSuffix" /\ f.ext = ".java")

\* directories: "src", ".git", "bin/"
Ignored(a, f) ==
    IF a = "CodeAnalyzer" THEN f.dir = ".git" ELSE f.dir \in {".git", "bin/"}

NoCounts ==
    [total_files |-> 0, total_lines |-> 0, code_files |-> 0, test_files |-> 0,
     config_files |-> 0]

\* the loop body with every file's lines counted, whatever its suffix
ScanFileAllLines(a, acc, f) ==
    IF Ignored(a, f) THEN acc
    ELSE [acc EXCEPT !.total_files = @ + 1,
                     !.code_files = @ + (IF f.ext \in code_extensions(a) THEN 1 ELSE 0),
                     !.total_lines = @ + f.lines]

\* one turn of the loop over repo_path.rglob('*')
ScanFile(a, acc, f) ==
    IF Ignored(a, f) THEN acc
    ELSE LET counted == [acc EXCEPT !.total_files = @ + 1]
         IN  IF f.ext \in code_extensions(a)
             THEN IF f.readable
                  THEN [counted EXCEPT
                          !.code_files = @ + 1,
                          !.total_lines = @ + f.lines,
                          !.test_files = @ + (IF MatchesTestPattern(a, f) THEN 1 ELSE 0)]
                  ELSE \* open() raises after code_files was incremented
                       [counted EXCEPT !.code_files = @ + 1]
             ELSE IF f.ext \in config_extensions(a)
             THEN [counted EXCEPT !.config_files = @ + 1]
             ELSE counted

RECURSIVE ScanFiles(_, _, _)
ScanFiles(a, acc, files) ==
    IF files = <<>> THEN acc
    ELSE ScanFiles(a, ScanFile(a, acc, Head(files)), Tail(files))

\* test_files / max(code_files, 1) in CodeAnalyzer,
\* test_files / max(code_files - test_files, 1) in EnhancedCodeAnalyzer
TestToCodeRatio(a, c) ==
    IF a = "CodeAnalyzer"
    THEN Frac(c.test_files, Max(c.code_files, 1))
    ELSE Frac(c.test_files, Max(c.code_files - c.test_files, 1))

_analyze_file_structure(a, files) ==
    LET c == ScanFiles(a, NoCounts, files)
    IN  ("total_files" :> c.total_files) @@ ("code_files" :> c.code_files)
        @@ ("test_files" :> c.test_files) @@ ("config_files" :> c.config_files)
        @@ ("total_lines_of_code" :> c.total_lines)
        @@ ("test_to_code_ratio" :> TestToCodeRatio(a, c))
        @@ ("avg_lines_per_file" :> Frac(c.total_lines, Max(c.code_files, 1)))

IsFile(f) ==
    /\ f.ext \in {".py", ".java", ".kt", ".yml", ".properties", ".md"}
    /\ f.name \in {"plain", "test_lower", "Test_upper", "TestSuffix"}
    /\ f.dir \in {"src", ".git", "bin/"}
    /\ f.lines \in {1, 3}
    /\ f.readable \in BOOLEAN
    /\ f.name = "TestSuffix" => f.ext = ".java"
    /\ f.ext \in {".yml", ".properties", ".md"} =>
          f.name = "plain" /\ f.readable /\ f.lines = 1
    /\ f.dir # "src" => f.name = "plain" /\ f.readable /\ f.lines = 1
    /\ ~f.readable => f.lines = 1

Files ==
    {f \in [ext : {".py", ".java", ".kt", ".yml", ".properties", ".md"},
            name : {"plain", "test_lower", "Test_upper", "TestSuffix"},
            dir : {"src", ".git", "bin/"},
            lines : {1, 3},
            readable : BOOLEAN] : IsFile(f)}

RECURSIVE SeqsUpTo(_, _)
\* the sequences over S of length at most n
SeqsUpTo(S, n) ==
    IF n = 0 THEN {<<>>}
    ELSE LET shorter == SeqsUpTo(S, n - 1)
         IN  shorter \cup {Append(q, x) : q \in {r \in shorter : Len(r) = n - 1}, x \in S}

InitScan ==
    /\ tree \in SeqsUpTo(Files, MaxFiles)
    /\ structure = EmptyMap
    /\ IdleScoring
    /\ results = <<>>
    /\ commits = <<>>
    /\ collab = EmptyMap

AnalyzeFileStructure(a) ==
    /\ a \notin DOMAIN structure
    /\ structure' = (a :> _analyze_file_structure(a, tree)) @@ structure
    /\ UNCHANGED <<metrics, debt, pc, results, tree, commits, collab, serviceVars, analysisVars, detailVars>>

NextScan == \E a \in Analyzers : AnalyzeFileStructure(a)

SpecScan == InitScan /\ [][NextScan]_vars

----------------------------------------------------------------------------
(* Team collaboration: _analyze_team_collaboration over a commit history   *)

Authors == {"a1", "a2", "a3"}

\* a commit of GitLab carries author_email; the code also accepts one without
CommitRecords == {EmptyMap} \cup {"author_email" :> a : a \in Authors}

RECURSIVE Repeat(_, _)
Repeat(x, n) == IF n = 0 THEN <<>> ELSE <<x>> \o Repeat(x, n - 1)

ScenarioAuthors == <<"a1", "a2", "a3", "a4", "a5">>

RECURSIVE HistoryOf(_)
\* a history in which the i-th of Len(counts) authors has counts[i] commits
HistoryOf(counts) ==
    IF counts = <<>> THEN <<>>
    ELSE LET n == Len(counts)
         IN  HistoryOf(SubSeq(counts, 1, n - 1))
             \o Repeat("author_email" :> ScenarioAuthors[n], counts[n])

ScenarioCounts == {<<1, 1, 1, 1, 100>>, <<10, 10, 10, 10, 10>>, <<2, 2>>, <<1, 9>>}

InitTeam ==
    /\ \/ commits \in SeqsUpTo(CommitRecords, MaxCommits)
       \/ \E counts \in ScenarioCounts : commits = HistoryOf(counts)
    /\ collab = EmptyMap
    /\ IdleScoring
    /\ results = <<>>
    /\ tree = <<>>
    /\ structure = EmptyMap

AnalyzeTeamCollaboration ==
    /\ pc = "input"
    /\ collab' = _analyze_team_collaboration(commits)
    /\ pc' = "collab"
    /\ UNCHANGED <<metrics, debt, results, tree, structure, commits, serviceVars, analysisVars, detailVars>>

NextTeam == AnalyzeTeamCollaboration

SpecTeam == InitTeam /\ [][NextTeam]_vars

----------------------------------------------------------------------------
(* Claims about the calculator, checked under Spec *)

Calculated == pc \in {"scored", "local"}

InRange(x) == 0 <= x /\ x <= Pts(40)

CodeMap == Get(metrics, "code_analysis", EmptyMap)
InfraMap == Get(metrics, "infrastructure_analysis", EmptyMap)

\* C1: every DebtMetrics that calculate_debt_score returns has its four
\* category scores and its overall score in [0.0, 4.0].
C1_ScoresInRange ==
    Calculated =>
        /\ InRange(debt.code_quality_score)
        /\ InRange(debt.architecture_score)
        /\ InRange(debt.infrastructure_score)
        /\ InRange(debt.operations_score)
        /\ InRange(debt.overall_score)

\* a score whose penalties add up to more than 4.0 was capped
C1_Witness ==
    /\ pc = "scored"
    /\ debt.code_quality_score = Pts(40)
    /\ TestCoveragePenalty(CodeMap) + FileSizePenalty(CodeMap) + LargeFilesPenalty(CodeMap)
         + DocumentationPenalty(CodeMap) > Pts(40)

\* C2: overall_score = 0.25 code + 0.30 architecture + 0.25 infrastructure
\* + 0.20 operations, the weights add up to 1, and so the overall score is
\* 4.0 exactly when all four scores are 4.0 and 0 exactly when all are 0.
C2_WeightedSum ==
    Calculated =>
        /\ debt.overall_score * 100 =
              25 * debt.code_quality_score + 30 * debt.architecture_score
              + 25 * debt.infrastructure_score + 20 * debt.operations_score
        /\ weights.code_quality + weights.architecture
              + weights.infrastructure + weights.operations = 100
        /\ debt.overall_score = Pts(40) <=>
              /\ debt.code_quality_score = Pts(40)
              /\ debt.architecture_score = Pts(40)
              /\ debt.infrastructure_score = Pts(40)
              /\ debt.operations_score = Pts(40)
        /\ debt.overall_score = 0 <=>
              /\ debt.code_quality_score = 0
              /\ debt.architecture_score = 0
              /\ debt.infrastructure_score = 0
              /\ debt.operations_score = 0

\* four different category scores were combined
C2_Witness ==
    /\ pc = "scored"
    /\ debt.code_quality_score = Pts(40)
    /\ debt.architecture_score = Pts(5)
    /\ debt.infrastructure_score = Pts(15)
    /\ debt.operations_score = Pts(20)
    /\ debt.overall_score = Pts(19) + 250

WeightedOK(d) ==
    d.overall_score * 100 =
        25 * d.code_quality_score + 30 * d.architecture_score
        + 25 * d.infrastructure_score + 20 * d.operations_score

\* C4: every DebtMetrics that _analyze_local_project returns, also when an
\* analyzer raised, has all five scores in [0.0, 4.0] and its overall score
\* equal to the weighted sum of its category scores.
C4_LocalScoresSound ==
    pc \in {"local", "fallback"} =>
        /\ InRange(debt.code_quality_score)
        /\ InRange(debt.architecture_score)
        /\ InRange(debt.infrastructure_score)
        /\ InRange(debt.operations_score)
        /\ InRange(debt.overall_score)
        /\ WeightedOK(debt)

ZeroTestsThousandLines(m) ==
    /\ "test_to_code_ratio" \in DOMAIN m /\ FEq(m["test_to_code_ratio"], Frac(0, 1))
    /\ "avg_lines_per_file" \in DOMAIN m /\ FEq(m["avg_lines_per_file"], Frac(1000, 1))

\* C6 as stated: zero tests and 1000 lines per file give code quality >= 3.0
C6_AtLeastThree ==
    (pc = "scored" /\ ZeroTestsThousandLines(CodeMap)) => debt.code_quality_score >= Pts(30)

\* C6, amended: with test_to_code_ratio = 0 and avg_lines_per_file = 1000 the
\* code quality score is at least 2.5 (1.5 for the tests, 1.0 for the size),
\* whatever the other metrics are.
C6_AtLeastTwoAndAHalf ==
    (pc = "scored" /\ ZeroTestsThousandLines(CodeMap)) => debt.code_quality_score >= Pts(25)

\* the two top tiers and nothing else: exactly 2.5
C6_Witness ==
    /\ pc = "scored"
    /\ ZeroTestsThousandLines(CodeMap)
    /\ DOMAIN CodeMap = {"test_to_code_ratio", "avg_lines_per_file"}
    /\ debt.code_quality_score = Pts(25)

\* C8: without CI/CD configuration and without containerization the
\* infrastructure score is at least 3.0, whatever the other metrics are.
C8_NoCiNoContainer ==
    (pc = "scored" /\ ~Get(InfraMap, "has_cicd_config", FALSE)
                   /\ ~Get(InfraMap, "is_containerized", FALSE))
        => debt.infrastructure_score >= Pts(30)

\* nothing else is charged: exactly 3.0, with the two keys present and false
C8_Witness ==
    /\ pc = "scored"
    /\ "has_cicd_config" \in DOMAIN InfraMap /\ ~InfraMap["has_cicd_config"]
    /\ "is_containerized" \in DOMAIN InfraMap /\ ~InfraMap["is_containerized"]
    /\ debt.infrastructure_score = Pts(30)


\* C7 as stated: the scenario repository scores exactly 4.0 on code quality
C7_ScenarioCapped ==
    (pc = "scored" /\ IsScenario(metrics)) => debt.code_quality_score = Pts(40)

\* C7, amended: for the scenario repository the code quality score is at
\* least 2.5 and at most 4.0; it is 4.0 only when the large-file, deep-nesting
\* and lint penalties add at least 1.5 to the 2.5 of the tests and the size.
C7_ScenarioAtLeastTwoAndAHalf ==
    (pc = "scored" /\ IsScenario(metrics)) =>
        /\ debt.code_quality_score >= Pts(25)
        /\ debt.code_quality_score <= Pts(40)
        /\ debt.code_quality_score = Pts(40) =>
              LargeFilesPenalty(CodeMap) + DeepNestingPenalty(CodeMap) + LintPenalty(CodeMap)
                  >= Pts(15)

\* the scenario with small, flat, lint-free files: 2.5
C7_Witness ==
    /\ pc = "scored"
    /\ IsScenario(metrics)
    /\ CodeMap["large_files_count"] = 0
    /\ CodeMap["deep_nesting_files"] = 0
    /\ debt.code_quality_score = Pts(25)


----------------------------------------------------------------------------
(* Claims about the risk labels, checked under SpecRisk *)

Rank(level) ==
    CASE level = "Low" -> 1
      [] level = "Medium" -> 2
      [] level = "High" -> 3
      [] level = "Critical" -> 4

\* C3: score <= 1.0 is Low, 1.0 < score <= 2.0 Medium, 2.0 < score <= 3.0
\* High, score > 3.0 Critical; the agent's and the API's function give the
\* same label to the same score; a larger score never gets a lower tier.
C3_RiskLevels ==
    /\ \A i \in 1..Len(results) :
          LET r == results[i]
          IN  /\ r.risk_level = "Low" <=> r.overall_score <= Pts(10)
              /\ r.risk_level = "Medium" <=>
                    (Pts(10) < r.overall_score /\ r.overall_score <= Pts(20))
              /\ r.risk_level = "High" <=>
                    (Pts(20) < r.overall_score /\ r.overall_score <= Pts(30))
              /\ r.risk_level = "Critical" <=> r.overall_score > Pts(30)
    /\ \A i, j \in 1..Len(results) :
          /\ results[i].overall_score = results[j].overall_score
                => results[i].risk_level = results[j].risk_level
          /\ results[i].overall_score <= results[j].overall_score
                => Rank(results[i].risk_level) <= Rank(results[j].risk_level)

\* the agent and the API both labelled the boundary score 2.0, as Medium
C3_Witness ==
    /\ Len(results) = 2
    /\ results[1].source = "agent" /\ results[2].source = "api"
    /\ results[1].overall_score = Pts(20) /\ results[2].overall_score = Pts(20)
    /\ results[1].risk_level = "Medium" /\ results[2].risk_level = "Medium"

----------------------------------------------------------------------------
(* Claims about the structural scan, checked under SpecScan *)

\* C5: when a structural scan finds no code file, test_to_code_ratio and
\* avg_lines_per_file are both 0 (over a non-zero divisor), in CodeAnalyzer
\* and in EnhancedCodeAnalyzer.
C5_NoCodeFiles ==
    \A a \in DOMAIN structure :
        structure[a]["code_files"] = 0 =>
            /\ structure[a]["test_to_code_ratio"][2] # 0
            /\ structure[a]["test_to_code_ratio"][1] = 0
            /\ structure[a]["avg_lines_per_file"][2] # 0
            /\ structure[a]["avg_lines_per_file"][1] = 0

\* both analyzers scanned a tree of two files, none of them a code file
C5_Witness ==
    /\ DOMAIN structure = Analyzers
    /\ Len(tree) = 2
    /\ \A a \in Analyzers :
          /\ structure[a]["total_files"] = 2
          /\ structure[a]["code_files"] = 0
          /\ structure[a]["test_to_code_ratio"] = Frac(0, 1)

----------------------------------------------------------------------------
(* Claims about the Gini coefficient, checked under SpecTeam *)

\* the standard Gini coefficient of counts sorted ascending:
\* sum_i (2 i - n - 1) x_i / (n sum_i x_i), i from 1
StandardGini(counts) ==
    LET n == Len(counts)
    IN  Frac(SumSeq([i \in 1..n |-> (2 * i - n - 1) * counts[i]]), n * SumSeq(counts))

HasGini == pc = "collab" /\ "contribution_gini_coefficient" \in DOMAIN collab

CommitCounts == SortedCounts(ContributorCommits(commits))

\* |r - 4/5| <= 1/20
NearFourFifths(r) ==
    /\ 20 * r[1] >= 15 * r[2]
    /\ 20 * r[1] <= 17 * r[2]

\* C9: contribution_gini_coefficient is the standard Gini coefficient of the
\* per-contributor commit counts; the counts [1,1,1,1,100] give a value
\* within 0.05 of 0.8.
C9_StandardGini ==
    HasGini =>
        /\ FEq(collab["contribution_gini_coefficient"], StandardGini(CommitCounts))
        /\ CommitCounts = <<1, 1, 1, 1, 100>> =>
              NearFourFifths(collab["contribution_gini_coefficient"])

AllEqual(counts) == \A i, j \in 1..Len(counts) : counts[i] = counts[j]

\* C10: contributors with equal commit counts give a coefficient of exactly
\* 0, and every coefficient computed lies in [0, 1].
C10_GiniRange ==
    HasGini =>
        /\ AllEqual(CommitCounts) => collab["contribution_gini_coefficient"][1] = 0
        /\ collab["contribution_gini_coefficient"][1] >= 0
        /\ collab["contribution_gini_coefficient"][1]
              <= collab["contribution_gini_coefficient"][2]

----------------------------------------------------------------------------
(* Scans of several repositories.  A scan is a coroutine: scan_projects of *)
(* the agent, the background task _scan_repositories_batch, or a request   *)
(* to scan_github_repository.  Coroutines of the API run on one event loop *)
(* and are interleaved at their await points only: each action below is    *)
(* the code between two awaits.  The outcome of a clone or of an analysis  *)
(* is the environment's choice.                                            *)

MaxRepos == 2       \* repositories handed to one scan

ScanIds == {1, 2}

\* a repository dict of the GitHub / GitLab listing, with or without 'name'
Repository(t, i) == "name" :> <<t, i>>
Repositories(t, n) ==
    {rs \in [1..n -> {EmptyMap} \cup {Repository(t, i) : i \in 1..n}] :
        \A i \in 1..n : rs[i] # EmptyMap => rs[i] = Repository(t, i)}

\* code metrics of two cloned repositories, one clean and one neglected
ClonedCodeMetrics ==
    {("test_to_code_ratio" :> Frac(1, 2)) @@ ("avg_lines_per_file" :> Frac(100, 1)),
     ("test_to_code_ratio" :> Frac(0, 1)) @@ ("avg_lines_per_file" :> Frac(1000, 1))}

\* stubs that carry a CI/CD configuration and a container
StubAnalysisWithPipeline ==
    ("score" :> Pts(70)) @@ ("issues" :> <<>>) @@ ("has_cicd_config" :> TRUE)
    @@ ("is_containerized" :> TRUE)

\* {"score": 7.0, "issues": []}
StubAnalysis == ("score" :> Pts(70)) @@ ("issues" :> <<>>)

\* all_metrics of _scan_single_repository and of scan_github_repository
BasicMetrics(code_metrics) ==
    RawMetrics(code_metrics, StubAnalysis, StubAnalysis, StubAnalysis)

\* the scan_result dicts of _scan_single_repository, by the place it returns
FailedResult(id, name) ==
    ("scan_id" :> id) @@ ("status" :> "failed") @@ ("project_name" :> name)
    @@ ("error" :> "clone")

MinimalResult(id, name) ==
    ("scan_id" :> id) @@ ("status" :> "completed_minimal") @@ ("project_name" :> name)
    @@ ("error" :> "files") @@ ("risk_level" :> "Unknown")

BasicResult(id, name) ==
    ("scan_id" :> id) @@ ("status" :> "completed_basic") @@ ("project_name" :> name)
    @@ ("analysis_error" :> "analysis") @@ ("risk_level" :> "Unknown")

CompletedResult(id, name, code_metrics) ==
    LET debt_metrics == calculate_debt_score(BasicMetrics(code_metrics))
    IN  ("scan_id" :> id) @@ ("status" :> "completed") @@ ("project_name" :> name)
        @@ ("debt_metrics" :> debt_metrics)
        @@ ("detailed_analysis" :> BasicMetrics(code_metrics))
        @@ ("risk_level" :> _get_risk_level_from_score(debt_metrics.overall_score))

\* scan_github_repository returns its partial results without risk_level
MinimalResponse(id, name) ==
    ("scan_id" :> id) @@ ("status" :> "completed_minimal") @@ ("project_name" :> name)
    @@ ("error" :> "files")

BasicResponse(id, name) ==
    ("scan_id" :> id) @@ ("status" :> "completed_basic") @@ ("project_name" :> name)
    @@ ("analysis_error" :> "analysis")

Recommendation(category, priority) ==
    ("category" :> category) @@ ("priority" :> priority)

_generate_recommendations_from_metrics(debt_metrics) ==
    (IF debt_metrics.code_quality_score < Pts(70)
     THEN <<Recommendation("code_quality",
              IF debt_metrics.code_quality_score < Pts(50) THEN "high" ELSE "medium")>>
     ELSE <<>>)
    \o (IF debt_metrics.architecture_score < Pts(70)
        THEN <<Recommendation("architecture", "medium")>> ELSE <<>>)
    \o (IF debt_metrics.infrastructure_score < Pts(70)
        THEN <<Recommendation("infrastructure", "medium")>> ELSE <<>>)
    \o (IF debt_metrics.operations_score < Pts(70)
        THEN <<Recommendation("operations", "low")>> ELSE <<>>)

\* for rec in recommendations: rec["scan_id"] = ...; rec["project_name"] = ...
TaggedRecommendations(scan_result) ==
    LET recs == _generate_recommendations_from_metrics(scan_result["debt_metrics"])
    IN  [k \in 1..Len(recs) |->
            ("scan_id" :> scan_result["scan_id"])
            @@ ("project_name" :> scan_result["project_name"]) @@ recs[k]]

\* a store keeps only the result appended last
StoreLatest(store, items) == items

\* list.append of each item, in order
StoreAppend(store, items) == store \o items

\* every result of the batch stored, whatever its status
StoreResultAlways(store, scan_result) == StoreAppend(store, <<scan_result>>)

\* _scan_repositories_batch: `if scan_result["status"] in ["completed",
\* "completed_basic"]: SCAN_RESULTS_STORE.append(scan_result)`
StoreResult(store, scan_result) ==
    IF scan_result["status"] \in {"completed", "completed_basic"}
    THEN StoreAppend(store, <<scan_result>>)
    ELSE store

\* the recommendations a stored scan result brings with it
RecommendationsOf(scan_result) ==
    IF "debt_metrics" \in DOMAIN scan_result
    THEN TaggedRecommendations(scan_result) ELSE <<>>

\* minimal results counted with neither the successful nor the failed scans
CountScanLenient(scan, status) ==
    IF status \in {"completed", "completed_basic"}
    THEN [scan EXCEPT !.successful_scans = @ + 1]
    ELSE IF status = "failed" THEN [scan EXCEPT !.failed_scans = @ + 1]
    ELSE scan

\* successful_scans += 1 or failed_scans += 1, by the status of the result
CountScan(scan, status) ==
    IF status \in {"completed", "completed_basic"}
    THEN [scan EXCEPT !.successful_scans = @ + 1]
    ELSE [scan EXCEPT !.failed_scans = @ + 1]

NewScan(kind, repositories) ==
    [kind |-> kind, repositories |-> repositories, i |-> 1, at |-> "loop",
     successful_scans |-> 0, failed_scans |-> 0, results |-> <<>>]

\* the next turn of the for loop
NextTurn(scan) == [scan EXCEPT !.i = @ + 1, !.at = "loop"]

ScanConfigurations ==
    {(1 :> NewScan("agent", [i \in 1..n |-> Repository(1, i)])) : n \in 0..MaxRepos}
    \cup {(1 :> NewScan("batch", rs)) : rs \in UNION {Repositories(1, n) : n \in 0..MaxRepos}}
    \cup {(1 :> NewScan("batch", r1)) @@ (2 :> NewScan("batch", r2)) :
            r1 \in UNION {Repositories(1, n) : n \in 1..MaxRepos},
            r2 \in UNION {Repositories(2, n) : n \in 1..MaxRepos}}
    \cup {(1 :> NewScan("batch", r1)) @@ (2 :> NewScan("single", <<Repository(2, 1)>>)) :
            r1 \in UNION {Repositories(1, n) : n \in 1..MaxRepos}}
    \cup {(1 :> NewScan("single", <<Repository(1, 1)>>))
            @@ (2 :> NewScan("single", <<Repository(2, 1)>>))}

InitService ==
    /\ scans \in ScanConfigurations
    /\ IdleStores
    /\ IdleDetail
    /\ metrics = EmptyMap
    /\ debt = NoDebt
    /\ pc = "input"
    /\ results = <<>>
    /\ tree = <<>>
    /\ structure = EmptyMap
    /\ commits = <<>>
    /\ collab = EmptyMap
    /\ IdleAnalysis

Turn(t, kind) ==
    /\ t \in DOMAIN scans
    /\ scans[t].kind = kind
    /\ scans[t].i <= Len(scans[t].repositories)

serviceRest ==
    <<metrics, debt, pc, results, tree, structure, commits, collab,
      assessments_db, running_assessments, response, analysisVars, detailVars>>

\* scan_projects: one turn of the loop over the projects
ScanProject(t) ==
    /\ Turn(t, "agent")
    /\ LET scan == scans[t]
           project == scan.repositories[scan.i]
       IN  \E raises \in BOOLEAN, code_metrics \in ClonedCodeMetrics :
              LET debt_metrics ==
                      calculate_debt_score(RawMetrics(code_metrics, EmptyMap, EmptyMap, EmptyMap))
                  result ==
                      IF raises
                      THEN ("project_info" :> project) @@ ("error" :> "clone")
                      ELSE ("project_info" :> project) @@ ("debt_metrics" :> debt_metrics)
                           @@ ("risk_level" :> _get_risk_level(debt_metrics.overall_score))
              IN  scans' = [scans EXCEPT ![t] =
                               NextTurn([scan EXCEPT !.results = Append(@, result)])]
    /\ UNCHANGED <<SCAN_RESULTS_STORE, RECOMMENDATIONS_STORE, serviceRest>>

\* _scan_repositories_batch: a turn of the loop up to the await inside
\* _scan_single_repository, or to the end of the turn when that is not reached
BatchBegin(t) ==
    /\ Turn(t, "batch")
    /\ scans[t].at = "loop"
    /\ LET scan == scans[t]
           repo == scan.repositories[scan.i]
       IN  IF "name" \notin DOMAIN repo
           THEN \* repo_info['name'] raises KeyError, caught by the batch
                /\ scans' = [scans EXCEPT ![t] = NextTurn([scan EXCEPT !.failed_scans = @ + 1])]
                /\ UNCHANGED SCAN_RESULTS_STORE
           ELSE \E outcome \in {"failed", "completed_minimal", "cloned"} :
                   LET scan_result ==
                           IF outcome = "failed"
                           THEN FailedResult(<<t, scan.i>>, repo["name"])
                           ELSE MinimalResult(<<t, scan.i>>, repo["name"])
                   IN  IF outcome = "cloned"
                       THEN /\ scans' = [scans EXCEPT ![t] = [scan EXCEPT !.at = "awaiting"]]
                            /\ UNCHANGED SCAN_RESULTS_STORE
                       ELSE /\ scans' = [scans EXCEPT ![t] =
                                            NextTurn(CountScan(scan, scan_result["status"]))]
                            /\ SCAN_RESULTS_STORE' = StoreResult(SCAN_RESULTS_STORE, scan_result)
    /\ UNCHANGED <<RECOMMENDATIONS_STORE, serviceRest>>

\* from the return of analyze_code_quality to the end of the turn
BatchResume(t) ==
    /\ Turn(t, "batch")
    /\ scans[t].at = "awaiting"
    /\ LET scan == scans[t]
           name == scan.repositories[scan.i]["name"]
       IN  \E raises \in BOOLEAN, code_metrics \in ClonedCodeMetrics :
              LET scan_result ==
                      IF raises THEN BasicResult(<<t, scan.i>>, name)
                      ELSE CompletedResult(<<t, scan.i>>, name, code_metrics)
              IN  /\ SCAN_RESULTS_STORE' = StoreResult(SCAN_RESULTS_STORE, scan_result)
                  /\ RECOMMENDATIONS_STORE' =
                        StoreAppend(RECOMMENDATIONS_STORE, RecommendationsOf(scan_result))
                  /\ scans' = [scans EXCEPT ![t] =
                                  NextTurn(CountScan(scan, scan_result["status"]))]
    /\ UNCHANGED serviceRest

\* scan_github_repository up to its await; an HTTPException raised inside
\* the try block is caught by the last except clause and sent as a 500
SingleBegin(t) ==
    /\ Turn(t, "single")
    /\ scans[t].at = "loop"
    /\ LET scan == scans[t]
           name == scan.repositories[1]["name"]
       IN  \E outcome \in {"failed", "completed_minimal", "cloned"} :
              scans' = [scans EXCEPT ![t] =
                  IF outcome = "cloned" THEN [scan EXCEPT !.at = "awaiting"]
                  ELSE NextTurn([scan EXCEPT !.results =
                         <<IF outcome = "failed" THEN ("status_code" :> 500)
                           ELSE MinimalResponse(<<t, 1>>, name)>>])]
    /\ UNCHANGED <<SCAN_RESULTS_STORE, RECOMMENDATIONS_STORE, serviceRest>>

\* scan_github_repository from the return of analyze_code_quality
SingleResume(t) ==
    /\ Turn(t, "single")
    /\ scans[t].at = "awaiting"
    /\ LET scan == scans[t]
           name == scan.repositories[1]["name"]
       IN  \E raises \in BOOLEAN, code_metrics \in ClonedCodeMetrics :
              IF raises
              THEN /\ scans' = [scans EXCEPT ![t] =
                          NextTurn([scan EXCEPT !.results = <<BasicResponse(<<t, 1>>, name)>>])]
                   /\ UNCHANGED <<SCAN_RESULTS_STORE, RECOMMENDATIONS_STORE>>
              ELSE LET scan_result == CompletedResult(<<t, 1>>, name, code_metrics)
                   IN  /\ SCAN_RESULTS_STORE' = StoreAppend(SCAN_RESULTS_STORE, <<scan_result>>)
                       /\ RECOMMENDATIONS_STORE' =
                             StoreAppend(RECOMMENDATIONS_STORE, RecommendationsOf(scan_result))
                       /\ scans' = [scans EXCEPT ![t] =
                             NextTurn([scan EXCEPT !.results = <<scan_result>>])]
    /\ UNCHANGED serviceRest

NextService ==
    \E t \in ScanIds :
        \/ ScanProject(t)
        \/ BatchBegin(t)
        \/ BatchResume(t)
        \/ SingleBegin(t)
        \/ SingleResume(t)

SpecService == InitService /\ [][NextService]_vars

----------------------------------------------------------------------------
(* Claims about batches of scans, checked under SpecService *)

HasKey(m, k) == k \in DOMAIN m

\* C11: a failure while scanning one repository never aborts a batch.
\* scan_projects holds one result per project scanned so far, in input
\* order, each with either debt_metrics and risk_level or error, never both,
\* and the loop goes on after an error; _scan_repositories_batch has counted
\* every repository it went through as successful or as failed, exactly once.
C11_BatchNeverAborts ==
    \A t \in DOMAIN scans :
        LET scan == scans[t]
        IN  /\ scan.i <= Len(scan.repositories) + 1
            /\ scan.kind = "agent" =>
                  /\ Len(scan.results) = scan.i - 1
                  /\ \A k \in 1..Len(scan.results) :
                        LET r == scan.results[k]
                        IN  /\ r["project_info"] = scan.repositories[k]
                            /\ HasKey(r, "debt_metrics") # HasKey(r, "error")
                            /\ HasKey(r, "risk_level") = HasKey(r, "debt_metrics")
            /\ scan.kind = "batch" =>
                  scan.successful_scans + scan.failed_scans = scan.i - 1

\* scan_projects went on to the second project after the first one failed
C11_Witness ==
    \E t \in DOMAIN scans :
        /\ scans[t].kind = "agent"
        /\ Len(scans[t].repositories) = 2
        /\ Len(scans[t].results) = 2
        /\ HasKey(scans[t].results[1], "error")
        /\ HasKey(scans[t].results[2], "debt_metrics")

StoredBy(t) == {k \in 1..Len(SCAN_RESULTS_STORE) : SCAN_RESULTS_STORE[k]["scan_id"][1] = t}

\* the recommendations stored for one scan result, in the order stored
StoredRecommendations(id) ==
    SelectSeq(RECOMMENDATIONS_STORE, LAMBDA rec : rec["scan_id"] = id)

\* C19 as stated: concurrent scans write no shared mutable state, so no
\* store ever holds what two different scans wrote.
C19_NoSharedWrites ==
    \A j, k \in 1..Len(SCAN_RESULTS_STORE) :
        SCAN_RESULTS_STORE[j]["scan_id"][1] = SCAN_RESULTS_STORE[k]["scan_id"][1]

\* C19: scans that run concurrently share only the two stores, to which they
\* append between await points.  Under every interleaving each stored result
\* is the one its own repository produced, is stored once, none is lost, and
\* each stored result with debt metrics has exactly its own recommendations.
C19_RecordsIntact ==
    /\ \A j, k \in 1..Len(SCAN_RESULTS_STORE) :
          j # k => SCAN_RESULTS_STORE[j]["scan_id"] # SCAN_RESULTS_STORE[k]["scan_id"]
    /\ \A k \in 1..Len(SCAN_RESULTS_STORE) :
          LET r == SCAN_RESULTS_STORE[k]
              t == r["scan_id"][1]
              i == r["scan_id"][2]
          IN  /\ t \in DOMAIN scans
              /\ i < scans[t].i
              /\ r["project_name"] = scans[t].repositories[i]["name"]
              /\ \/ r = BasicResult(r["scan_id"], r["project_name"])
                 \/ \E c \in ClonedCodeMetrics :
                       r = CompletedResult(r["scan_id"], r["project_name"], c)
              /\ StoredRecommendations(r["scan_id"]) = RecommendationsOf(r)
    /\ \A t \in DOMAIN scans :
          /\ scans[t].kind = "batch" => Cardinality(StoredBy(t)) = scans[t].successful_scans
          /\ scans[t].kind = "single" =>
                \A k \in 1..Len(scans[t].results) :
                    Get(scans[t].results[k], "status", "") = "completed" =>
                        \E j \in StoredBy(t) : SCAN_RESULTS_STORE[j] = scans[t].results[k]
    /\ \A k \in 1..Len(RECOMMENDATIONS_STORE) :
          \E j \in 1..Len(SCAN_RESULTS_STORE) :
              /\ SCAN_RESULTS_STORE[j]["scan_id"] = RECOMMENDATIONS_STORE[k]["scan_id"]
              /\ SCAN_RESULTS_STORE[j]["project_name"] = RECOMMENDATIONS_STORE[k]["project_name"]

\* two scans interleaved: a result of the second scan was stored between
\* two results of the first
C19_Witness ==
    /\ Len(SCAN_RESULTS_STORE) = 3
    /\ SCAN_RESULTS_STORE[1]["scan_id"][1] = 1
    /\ SCAN_RESULTS_STORE[2]["scan_id"][1] = 2
    /\ SCAN_RESULTS_STORE[3]["scan_id"][1] = 1
    /\ Len(RECOMMENDATIONS_STORE) > 0

----------------------------------------------------------------------------
(* Local assessments: TechDebtAPI.run_assessment and analyze_codebase.    *)
(* A project path is "missing", a regular "file", or a directory "dir";   *)
(* the code asks only Path.exists(), which holds for the last two.        *)

MaxRequests == 2    \* requests served in one run

PathKinds == {"missing", "file", "dir"}

Exists(path) == path \in {"file", "dir"}

\* what the analyzers find below the path: rglob('*') yields nothing below
\* a regular file; a directory is empty, the scenario repository, or one of
\* the two cloned repositories
FoundMetrics(path) ==
    IF path = "file"
    THEN {RawMetrics(_analyze_file_structure("CodeAnalyzer", <<>>), EmptyMap, EmptyMap, EmptyMap)}
    ELSE {RawMetrics(_analyze_file_structure("CodeAnalyzer", <<>>), EmptyMap, EmptyMap, EmptyMap),
          RawMetrics(ScenarioStructure, ScenarioArch, ScenarioInfra, EmptyMap)}
         \cup {RawMetrics(c, EmptyMap, EmptyMap, EmptyMap) : c \in ClonedCodeMetrics}
         \cup {RawMetrics(ScenarioStructure @@ ("large_files_count" :> l),
                           ("has_readme" :> TRUE) @@ ("readme_length" :> 500)
                           @@ ("documentation_files" :> 2) @@ ("has_docker_config" :> TRUE),
                           ("has_cicd_config" :> TRUE) @@ ("has_gitignore" :> TRUE)
                           @@ ("is_containerized" :> TRUE),
                           EmptyMap) : l \in {2, 4}}

\* thresholds 7.0, 7.0 * 0.7 and 7.0 * 0.4; the scores are multiples of 0.5
\* or the fallback values, none of which lies within rounding of a threshold
\* the tiers read on the debt scale: the higher the value, the worse
_get_severity_debt_scale(value, threshold) ==
    IF value >= threshold THEN "critical"
    ELSE IF value * 10 >= threshold * 7 THEN "high"
    ELSE IF value * 10 >= threshold * 4 THEN "medium"
    ELSE "low"

_get_severity(value, threshold) ==
    IF value >= threshold THEN "low"
    ELSE IF value * 10 >= threshold * 7 THEN "medium"
    ELSE IF value * 10 >= threshold * 4 THEN "high"
    ELSE "critical"

DebtMetricModel(id, value) ==
    [id |-> id, value |-> value, threshold |-> Pts(70),
     severity |-> _get_severity(value, Pts(70))]

_convert_metrics_to_api_format(m) ==
    <<DebtMetricModel("code_quality", m.code_quality_score),
      DebtMetricModel("architecture", m.architecture_score),
      DebtMetricModel("infrastructure", m.infrastructure_score),
      DebtMetricModel("operations", m.operations_score)>>

_generate_recommendations(m) ==
    LET recommendations ==
            (IF m.code_quality_score < Pts(70) THEN <<"code_quality">> ELSE <<>>)
            \o (IF m.architecture_score < Pts(70) THEN <<"architecture">> ELSE <<>>)
            \o (IF m.infrastructure_score < Pts(70) THEN <<"infrastructure">> ELSE <<>>)
            \o (IF m.operations_score < Pts(70) THEN <<"operations">> ELSE <<>>)
    IN  IF recommendations = <<>> THEN <<"maintain">> ELSE recommendations

DebtAssessmentModel(assessment_id, path, m) ==
    [id |-> assessment_id, projectName |-> path, overallScore |-> m.overall_score,
     metrics |-> _convert_metrics_to_api_format(m),
     recommendations |-> _generate_recommendations(m), status |-> "completed"]

\* uuid.uuid4(): an id no assessment has yet
FreshId == Cardinality(DOMAIN running_assessments) + 1

InitAssess ==
    /\ IdleService
    /\ metrics = EmptyMap
    /\ debt = NoDebt
    /\ pc = "input"
    /\ results = <<>>
    /\ tree = <<>>
    /\ structure = EmptyMap
    /\ commits = <<>>
    /\ collab = EmptyMap
    /\ IdleAnalysis

assessRest ==
    <<metrics, debt, pc, results, tree, structure, commits, collab,
      SCAN_RESULTS_STORE, RECOMMENDATIONS_STORE, analysisVars, detailVars>>

\* the requests received so far: those answered and the assessments running
Received == Len(response) + Cardinality(DOMAIN scans)

\* an assignment that leaves the status an id already has
SetStatusIfAbsent(statuses, assessment_id, status) ==
    statuses @@ (assessment_id :> status)

\* running_assessments[assessment_id] = status
SetStatus(statuses, assessment_id, status) ==
    (assessment_id :> status) @@ statuses

\* POST /api/assessments/run: run_assessment(project_path) up to the await
\* of _analyze_local_project; the id is recorded as in progress
RunAssessmentBegin(path) ==
    /\ Received < MaxRequests
    /\ LET assessment_id == FreshId
       IN  /\ running_assessments' = SetStatus(running_assessments, assessment_id, "in_progress")
           /\ scans' = (assessment_id :> [kind |-> "assessment", path |-> path]) @@ scans
    /\ UNCHANGED <<assessments_db, response, assessRest>>

\* run_assessment from the await on, and the response
RunAssessment(assessment_id) ==
    /\ assessment_id \in DOMAIN scans
    /\ scans[assessment_id].kind = "assessment"
    /\ LET path == scans[assessment_id].path
       IN  IF ~Exists(path)
           THEN \* _analyze_local_project raises ValueError
                /\ running_assessments' = SetStatus(running_assessments, assessment_id, "failed")
                /\ response' = Append(response,
                      [op |-> "run_assessment", path |-> path, id |-> assessment_id,
                       status_code |-> 500])
                /\ UNCHANGED assessments_db
           ELSE \E found \in FoundMetrics(path), raises \in BOOLEAN :
                   LET m == _analyze_local_project(found, raises)
                   IN  /\ assessments_db' =
                             (assessment_id :> DebtAssessmentModel(assessment_id, path, m))
                             @@ assessments_db
                       /\ running_assessments' =
                             SetStatus(running_assessments, assessment_id, "completed")
                       /\ response' = Append(response,
                             [op |-> "run_assessment", path |-> path, id |-> assessment_id,
                              status_code |-> 200])
    /\ scans' = [id \in DOMAIN scans \ {assessment_id} |-> scans[id]]
    /\ UNCHANGED assessRest

\* POST /api/analysis/codebase: analyze_codebase(project_path)
AnalyzeCodebase(path) ==
    /\ Received < MaxRequests
    /\ response' = Append(response,
          [op |-> "analyze_codebase", path |-> path, id |-> 0,
           status_code |-> IF Exists(path) THEN 200 ELSE 404])
    /\ UNCHANGED <<assessments_db, running_assessments, scans, assessRest>>

NextAssess ==
    \/ \E path \in PathKinds : RunAssessmentBegin(path) \/ AnalyzeCodebase(path)
    \/ \E assessment_id \in 1..MaxRequests : RunAssessment(assessment_id)

SpecAssess == InitAssess /\ [][NextAssess]_vars

----------------------------------------------------------------------------
(* Claims about local assessments, checked under SpecAssess *)

RunIds ==
    {response[k].id : k \in {j \in 1..Len(response) : response[j].op = "run_assessment"}}
    \cup DOMAIN scans

\* C12: a scan of a root that does not exist or is not a directory is fatal
\* and leaves no partial result: run_assessment answers 500, the assessment
\* id is 'failed' in running_assessments and absent from assessments_db;
\* analyze_codebase on a nonexistent path answers 404; and only
\* run_assessment adds to the stored state.
C12_BadRootIsFatal ==
    /\ \A k \in 1..Len(response) :
          LET r == response[k]
          IN  /\ (r.op = "run_assessment" /\ r.path \in {"missing", "file"}) =>
                    /\ r.status_code = 500
                    /\ running_assessments[r.id] = "failed"
                    /\ r.id \notin DOMAIN assessments_db
              /\ (r.op = "analyze_codebase" /\ r.path = "missing") => r.status_code = 404
    /\ DOMAIN running_assessments = RunIds
    /\ DOMAIN assessments_db \subseteq RunIds

----------------------------------------------------------------------------
(* JavaAnalyzer: the build configuration of a Java repository.  A pom.xml  *)
(* is whether it lies at the repository root, whether ET.parse accepts it, *)
(* and the groupId:artifactId of its dependencies; a build.gradle file is  *)
(* whether read_text succeeds and its implementation dependencies.         *)

MaxBuildFiles == 2  \* pom.xml files, and build.gradle files, in a repository

SpringBootStarter == "org.springframework.boot:spring-boot-starter"
SpringCore == "org.springframework:spring-core"
JUnit == "junit:junit"

\* Python's `pattern in d` for the dependencies above
InArtifact(pattern, d) ==
    \/ pattern = "spring-boot" /\ d = SpringBootStarter
    \/ pattern = "org.springframework" /\ d \in {SpringBootStarter, SpringCore}
    \/ pattern = "junit" /\ d = JUnit
    \/ pattern = "junit:junit" /\ d = JUnit

DependencySets == {{}, {SpringBootStarter}, {SpringCore}, {JUnit}, {SpringBootStarter, JUnit}}

PomFiles ==
    {[root |-> r, parses |-> TRUE, deps |-> d] : r \in BOOLEAN, d \in DependencySets}
    \cup {[root |-> r, parses |-> FALSE, deps |-> {}] : r \in BOOLEAN}

GradleFiles ==
    {[parses |-> TRUE, deps |-> d] : d \in {{}, {SpringBootStarter}, {JUnit}}}
    \cup {[parses |-> FALSE, deps |-> {}]}

\* JavaAnalyzer._detect_build_system
_detect_build_system(maven_files, gradle_files) ==
    [has_maven |-> \E i \in 1..Len(maven_files) : maven_files[i].root,
     has_gradle |-> gradle_files # <<>>,
     maven_files |-> maven_files,
     gradle_files |-> gradle_files]

_detect_frameworks_from_maven(dep_artifacts) ==
    LET spring_deps == {d \in dep_artifacts : InArtifact("org.springframework", d)}
    IN  ("uses_spring" :> (spring_deps # {}))
        @@ ("spring_dependency_count" :> Cardinality(spring_deps))
        @@ ("uses_spring_boot" :> (\E d \in dep_artifacts : InArtifact("spring-boot", d)))
        @@ ("uses_junit" :> (\E d \in dep_artifacts : InArtifact("junit:junit", d)))

_detect_frameworks_from_gradle(dependencies) ==
    LET spring_deps == {d \in dependencies : InArtifact("org.springframework", d)}
    IN  ("uses_spring" :> (spring_deps # {}))
        @@ ("spring_dependency_count" :> Cardinality(spring_deps))
        @@ ("uses_spring_boot" :> (\E d \in dependencies : InArtifact("spring-boot", d)))
        @@ ("uses_junit" :> (\E d \in dependencies : InArtifact("junit", d)))

\* metrics.update(later) on a dict: the keys of later win
Update(earlier, later) == later @@ earlier

RECURSIVE MavenConfig(_, _)
\* the loop of _analyze_maven_config: each pom that parses overwrites the
\* keys the poms before it have set
MavenConfig(acc, maven_files) ==
    IF maven_files = <<>> THEN acc
    ELSE LET pom == Head(maven_files)
             found == ("maven_dependency_count" :> Cardinality(pom.deps))
                      @@ _detect_frameworks_from_maven(pom.deps)
         IN  MavenConfig(IF pom.parses THEN Update(acc, found) ELSE acc, Tail(maven_files))

_analyze_maven_config(maven_files) == MavenConfig(EmptyMap, maven_files)

\* the dependencies of all gradle files are gathered before the frameworks
\* are looked up; the set stands for the list, of which only membership and
\* the number of distinct entries matter here
_analyze_gradle_config(gradle_files) ==
    LET dependencies ==
            UNION {gradle_files[i].deps : i \in {j \in 1..Len(gradle_files) : gradle_files[j].parses}}
    IN  ("gradle_dependency_count" :> Cardinality(dependencies))
        @@ _detect_frameworks_from_gradle(dependencies)

_analyze_build_configuration(maven_files, gradle_files) ==
    LET files == _detect_build_system(maven_files, gradle_files)
        maven == IF files.has_maven THEN _analyze_maven_config(files.maven_files) ELSE EmptyMap
        gradle == IF files.has_gradle THEN _analyze_gradle_config(files.gradle_files) ELSE EmptyMap
    IN  Update(Update(EmptyMap, maven), gradle)

\* at most one pom.xml lies at the root
MavenFileLists ==
    {fs \in SeqsUpTo(PomFiles, MaxBuildFiles) :
        Cardinality({i \in 1..Len(fs) : fs[i].root}) <= 1}

InitJava ==
    /\ build_files \in [maven_files : MavenFileLists,
                        gradle_files : SeqsUpTo(GradleFiles, MaxBuildFiles)]
    /\ java_metrics = EmptyMap
    /\ pipeline_records = <<>>
    /\ infra_metrics = EmptyMap
    /\ quality = EmptyMap
    /\ ops_metrics = EmptyMap
    /\ pc = "input"
    /\ metrics = EmptyMap
    /\ debt = NoDebt
    /\ IdleService
    /\ results = <<>>
    /\ tree = <<>>
    /\ structure = EmptyMap
    /\ commits = <<>>
    /\ collab = EmptyMap

\* JavaAnalyzer(repo_path).analyze_java_project(): the build configuration
AnalyzeBuildConfiguration ==
    /\ pc = "input"
    /\ java_metrics' =
          _analyze_build_configuration(build_files.maven_files, build_files.gradle_files)
    /\ pc' = "java"
    /\ UNCHANGED <<metrics, debt, results, tree, structure, commits, collab, serviceVars,
                   pipeline_records, infra_metrics, quality, build_files, ops_metrics, detailVars>>

NextJava == AnalyzeBuildConfiguration

SpecJava == InitJava /\ [][NextJava]_vars

----------------------------------------------------------------------------
(* Claims about the Java build configuration, checked under SpecJava *)

RootPomDeclaresSpringBoot ==
    \E i \in 1..Len(build_files.maven_files) :
        /\ build_files.maven_files[i].root
        /\ build_files.maven_files[i].parses
        /\ SpringBootStarter \in build_files.maven_files[i].deps

\* C18: whenever JavaAnalyzer has run on a repository whose root pom.xml
\* declares a dependency on spring-boot-starter, the metrics have
\* uses_spring_boot = true, whatever other pom.xml and build.gradle files
\* the repository holds and in whatever order they are processed.
C18_SpringBootDetected ==
    (pc = "java" /\ RootPomDeclaresSpringBoot) =>
        Get(java_metrics, "uses_spring_boot", FALSE)

----------------------------------------------------------------------------
(* analyze_code_quality of CodeAnalyzer and of EnhancedCodeAnalyzer: the   *)
(* structural scan, the language detection and the language profilers.     *)
(* The trees hold small files (no large file, no deep nesting), a pom.xml  *)
(* at the root at most, and no build.gradle, package.json or requirements  *)
(* file.                                                                   *)

SourceFile(ext, name, dir) ==
    [ext |-> ext, name |-> name, dir |-> dir, lines |-> 1, readable |-> TRUE]

QualityFiles ==
    {SourceFile(".py", "plain", "src"), SourceFile(".java", "plain", "src"),
     SourceFile(".java", "plain", ".git"), SourceFile(".java", "TestSuffix", "src"),
     SourceFile(".kt", "plain", "src"), SourceFile(".xml", "pom", "."),
     SourceFile(".yml", "plain", "src")}

language_extensions(a) ==
    IF a = "CodeAnalyzer"
    THEN [Python |-> {".py"}, JavaScript |-> {".js", ".jsx"}, TypeScript |-> {".ts", ".tsx"},
          Java |-> {".java"}, Kotlin |-> {".kt"}]
    ELSE [Java |-> {".java"}, Python |-> {".py"}, JavaScript |-> {".js", ".jsx"},
          TypeScript |-> {".ts", ".tsx"}, Kotlin |-> {".kt"}, Scala |-> {".scala"},
          Groovy |-> {".groovy"}]

\* a detection that takes a root pom.xml for a sign of Java
DetectLanguagesByBuildFile(a, files) ==
    {l \in DOMAIN language_extensions(a) :
        \E i \in 1..Len(files) :
            \/ files[i].ext \in language_extensions(a)[l]
            \/ l = "Java" /\ files[i].name = "pom"}

\* every file of rglob('*'), the ignored directories included
_detect_languages(a, files) ==
    {l \in DOMAIN language_extensions(a) :
        \E i \in 1..Len(files) : files[i].ext \in language_extensions(a)[l]}

HasRootPom(files) == \E i \in 1..Len(files) : files[i].name = "pom" /\ files[i].dir = "."

\* CodeAnalyzer._analyze_java_code
_analyze_java_code(files) ==
    ("java_has_maven" :> HasRootPom(files)) @@ ("java_has_gradle" :> FALSE)
    @@ ("java_has_build_system" :> HasRootPom(files))

\* CodeAnalyzer._analyze_complexity: files of 1 line are neither large nor deep
_analyze_complexity(a, files) ==
    IF a = "CodeAnalyzer"
    THEN ("large_files_count" :> 0) @@ ("deep_nesting_files" :> 0)
    ELSE EmptyMap

\* _analyze_python_code: flake8 is an outcome of the environment
_analyze_python_code(a, flake8) ==
    IF a = "CodeAnalyzer" THEN flake8 @@ ("python_dependency_files" :> 0) ELSE EmptyMap

\* JavaAnalyzer.analyze_java_project: the class counts of a tree whose .java
\* files each declare one class outside any test directory, and the build
\* configuration of a root pom.xml that declares no dependency
analyze_java_project(files) ==
    LET java_files == {i \in 1..Len(files) : files[i].ext = ".java"}
        maven_files == IF HasRootPom(files)
                       THEN <<[root |-> TRUE, parses |-> TRUE, deps |-> {}]>> ELSE <<>>
    IN  Update(("java_main_classes" :> Cardinality(java_files)) @@ ("java_test_classes" :> 0)
                 @@ ("java_follows_standard_structure" :> FALSE),
               _analyze_build_configuration(maven_files, <<>>))

analyze_code_quality(a, files, flake8) ==
    LET languages == _detect_languages(a, files)
        basic == _analyze_file_structure(a, files)
        python == IF "Python" \in languages THEN _analyze_python_code(a, flake8) ELSE EmptyMap
        java == IF "Java" \in languages
                THEN IF a = "CodeAnalyzer" THEN _analyze_java_code(files)
                     ELSE "java_analysis" :> analyze_java_project(files)
                ELSE EmptyMap
        detected == IF a = "CodeAnalyzer" THEN EmptyMap ELSE "detected_languages" :> languages
    IN  Update(Update(Update(Update(basic, detected), python), java),
               _analyze_complexity(a, files))

InitQuality ==
    /\ tree \in SeqsUpTo(QualityFiles, MaxFiles)
    /\ quality = EmptyMap
    /\ structure = EmptyMap
    /\ IdleScoring
    /\ results = <<>>
    /\ commits = <<>>
    /\ collab = EmptyMap

AnalyzeCodeQuality(a) ==
    /\ a \notin DOMAIN quality
    /\ \E flake8 \in Opt("python_flake8_issues", {-1, 0}) :
          quality' = (a :> analyze_code_quality(a, tree, flake8)) @@ quality
    /\ UNCHANGED <<metrics, debt, pc, results, tree, structure, commits, collab, serviceVars,
                   pipeline_records, infra_metrics, build_files, java_metrics, ops_metrics, detailVars>>

NextQuality == \E a \in Analyzers : AnalyzeCodeQuality(a)

SpecQuality == InitQuality /\ [][NextQuality]_vars

----------------------------------------------------------------------------
(* Claims about analyze_code_quality, checked under SpecQuality *)

HasJavaMetrics(a) ==
    IF a = "CodeAnalyzer"
    THEN \E k \in DOMAIN quality[a] : k \in {"java_has_maven", "java_has_gradle", "java_has_build_system"}
    ELSE "java_analysis" \in DOMAIN quality[a]

HasJavaFile == \E i \in 1..Len(tree) : tree[i].ext = ".java"

----------------------------------------------------------------------------
(* Further claims about the structural scan, checked under SpecScan *)

WithoutFile(files, i) == SubSeq(files, 1, i - 1) \o SubSeq(files, i + 1, Len(files))

FailedRead(a, f) == ~Ignored(a, f) /\ f.ext \in code_extensions(a) /\ ~f.readable

\* C13: a code file whose read fails is skipped with zero contribution:
\* code_files, test_files and total_lines_of_code of the scan are the same as
\* those of the scan of the tree without that file.
C13_FailedReadSkipped ==
    \A a \in DOMAIN structure :
        \A i \in 1..Len(tree) :
            FailedRead(a, tree[i]) =>
                LET rest == _analyze_file_structure(a, WithoutFile(tree, i))
                IN  /\ structure[a]["code_files"] = rest["code_files"]
                    /\ structure[a]["test_files"] = rest["test_files"]
                    /\ structure[a]["total_lines_of_code"] = rest["total_lines_of_code"]

\* C15: for counts with test_files <= code_files, both analyzers produce
\* test_to_code_ratio = test_files / max(code_files - test_files, 1).
C15_SingleRatioDefinition ==
    \A a \in DOMAIN structure :
        structure[a]["test_files"] <= structure[a]["code_files"] =>
            FEq(structure[a]["test_to_code_ratio"],
                Frac(structure[a]["test_files"],
                     Max(structure[a]["code_files"] - structure[a]["test_files"], 1)))

----------------------------------------------------------------------------
(* InfrastructureAnalyzer.analyze_infrastructure on a list of pipeline     *)
(* records, followed by the infrastructure score of the calculator.        *)

MaxPipelines == 3   \* pipeline records handed to one analysis

PipelineRecords == {EmptyMap} \cup {"status" :> st : st \in {"success", "failed", "running"}}

\* what _analyze_cicd, _analyze_security and _analyze_deployment read from
\* the files of the tree
FileInfraMetrics ==
    {("has_cicd_config" :> ci) @@ ("cicd_config_count" :> (IF ci THEN 1 ELSE 0))
       @@ ("has_gitignore" :> gi) @@ ("is_containerized" :> TRUE) :
        ci \in BOOLEAN, gi \in BOOLEAN}

InitInfra ==
    /\ pipeline_records \in SeqsUpTo(PipelineRecords, MaxPipelines)
    /\ infra_metrics = EmptyMap
    /\ quality = EmptyMap
    /\ build_files = <<>>
    /\ java_metrics = EmptyMap
    /\ ops_metrics = EmptyMap
    /\ pc = "input"
    /\ metrics = EmptyMap
    /\ debt = NoDebt
    /\ IdleService
    /\ results = <<>>
    /\ tree = <<>>
    /\ structure = EmptyMap
    /\ commits = <<>>
    /\ collab = EmptyMap

AnalyzeInfrastructure ==
    /\ infra_metrics = EmptyMap
    /\ \E fileMetrics \in FileInfraMetrics :
          LET found == analyze_infrastructure(fileMetrics, pipeline_records)
          IN  infra_metrics' = [metrics |-> found,
                                score |-> _calculate_infrastructure_score(found)]
    /\ UNCHANGED <<metrics, debt, pc, results, tree, structure, commits, collab, serviceVars,
                   pipeline_records, quality, build_files, java_metrics, ops_metrics, detailVars>>

NextInfra == AnalyzeInfrastructure

SpecInfra == InitInfra /\ [][NextInfra]_vars

----------------------------------------------------------------------------
(* Claims about the pipeline success rate, checked under SpecInfra *)

Analyzed == infra_metrics # EmptyMap

RateReported ==
    /\ "pipeline_success_rate" \in DOMAIN infra_metrics.metrics
    /\ FEq(infra_metrics.metrics["pipeline_success_rate"],
           Frac(StatusCount(pipeline_records, "success"), Len(pipeline_records)))

ScoreWithRate(r) ==
    _calculate_infrastructure_score(("pipeline_success_rate" :> r) @@ infra_metrics.metrics)

\* C14 as stated: pipeline_success_rate is count(status = 'success') / total
\* when pipeline records are supplied, and with an empty pipeline list the
\* infrastructure score uses a success rate of 0.
C14_EmptyListRateZero ==
    Analyzed =>
        /\ pipeline_records # <<>> => RateReported
        /\ pipeline_records = <<>> => infra_metrics.score = ScoreWithRate(Frac(0, 1))

\* C14: pipeline_success_rate is count(status = 'success') / total when
\* pipeline records are supplied; with an empty pipeline list no rate is
\* reported and the infrastructure score uses a success rate of 1.0.
C14_EmptyListRatePerfect ==
    Analyzed =>
        /\ pipeline_records # <<>> => RateReported
        /\ pipeline_records = <<>> =>
              /\ "pipeline_success_rate" \notin DOMAIN infra_metrics.metrics
              /\ infra_metrics.score = ScoreWithRate(Frac(1, 1))

\* a repository with a CI configuration and no pipeline record: no pipeline
\* penalty in its score
C14_Witness ==
    /\ Analyzed
    /\ pipeline_records = <<>>
    /\ infra_metrics.metrics["has_cicd_config"]
    /\ infra_metrics.metrics["has_gitignore"]
    /\ infra_metrics.score = Pts(15)

----------------------------------------------------------------------------
(* The maintenance tiers of _calculate_operations_score: the calculator is *)
(* called on operational metrics that draw no other penalty (3 commits and *)
(* 1 deployment a week, 2 contributors), once per percentage.              *)

MaxScored == 2      \* calls of the calculator in one run

Percentages == {0, 20, 40, 41, 50, 60, 61, 70, 71, 85, 100}

HealthyOps ==
    ("commits_per_week" :> Frac(3, 1)) @@ ("deployments_per_week" :> Frac(1, 1))
    @@ ("unique_contributors" :> 2)

InitOps ==
    /\ ops_metrics = <<>>
    /\ pipeline_records = <<>>
    /\ infra_metrics = EmptyMap
    /\ quality = EmptyMap
    /\ build_files = <<>>
    /\ java_metrics = EmptyMap
    /\ pc = "input"
    /\ metrics = EmptyMap
    /\ debt = NoDebt
    /\ IdleService
    /\ results = <<>>
    /\ tree = <<>>
    /\ structure = EmptyMap
    /\ commits = <<>>
    /\ collab = EmptyMap

CalculateOperationsScore ==
    /\ Len(ops_metrics) < MaxScored
    /\ \E pct \in Percentages :
          LET operations == ("maintenance_commit_percentage" :> Frac(pct, 1)) @@ HealthyOps
          IN  ops_metrics' = Append(ops_metrics,
                                    [percentage |-> pct,
                                     score |-> _calculate_operations_score(operations)])
    /\ UNCHANGED <<metrics, debt, pc, results, tree, structure, commits, collab, serviceVars,
                   pipeline_records, infra_metrics, quality, build_files, java_metrics, detailVars>>

NextOps == CalculateOperationsScore

SpecOps == InitOps /\ [][NextOps]_vars

----------------------------------------------------------------------------
(* Claims about the maintenance tiers, checked under SpecOps *)

\* C16: the +2.0 maintenance tier is never applied, whatever the percentage
\* (above 70 the penalty is the 1.5 of the first branch); the penalty
\* applied is non-decreasing in the percentage and never exceeds 1.5.
C16_TopTierDead ==
    \A i \in 1..Len(ops_metrics) :
        /\ ops_metrics[i].score # Pts(20)
        /\ ops_metrics[i].score <= Pts(15)
        /\ ops_metrics[i].percentage > 70 => ops_metrics[i].score = Pts(15)
        /\ \A j \in 1..Len(ops_metrics) :
              ops_metrics[i].percentage <= ops_metrics[j].percentage
                  => ops_metrics[i].score <= ops_metrics[j].score

\* a percentage of 50 scored 1.0, then one of 71 scored 1.5
C16_Witness ==
    /\ Len(ops_metrics) = 2
    /\ ops_metrics[1].percentage = 50 /\ ops_metrics[1].score = Pts(10)
    /\ ops_metrics[2].percentage = 71 /\ ops_metrics[2].score = Pts(15)

----------------------------------------------------------------------------
(* The two classifications of commit messages in OperationalAnalyzer, run  *)
(* on short histories of commits with at most two words a message.         *)

MaxHistory == 2     \* commits in a classified history
MaxWords == 2       \* words in one commit message

\* no word holds a keyword as a substring except as Sub lists it
MessageWords == {"fix", "hotfix", "feature", "add", "refactor", "test", "wip"}

MessageRecords ==
    {EmptyMap} \cup
    {"message" :> ws : ws \in {s \in SUBSET MessageWords : Cardinality(s) <= MaxWords}}

InitCommits ==
    /\ commits \in SeqsUpTo(MessageRecords, MaxHistory)
    /\ ops_metrics = <<>>
    /\ pipeline_records = <<>>
    /\ infra_metrics = EmptyMap
    /\ quality = EmptyMap
    /\ build_files = <<>>
    /\ java_metrics = EmptyMap
    /\ pc = "input"
    /\ metrics = EmptyMap
    /\ debt = NoDebt
    /\ IdleService
    /\ results = <<>>
    /\ tree = <<>>
    /\ structure = EmptyMap
    /\ collab = EmptyMap

AnalyzeCommitMessages ==
    /\ pc = "input"
    /\ ops_metrics' = [maintenance |-> _analyze_maintenance_patterns(commits),
                       velocity |-> _analyze_development_velocity(commits)]
    /\ pc' = "classified"
    /\ UNCHANGED <<metrics, debt, results, tree, structure, commits, collab, serviceVars,
                   pipeline_records, infra_metrics, quality, build_files, java_metrics, detailVars>>

NextCommits == AnalyzeCommitMessages

SpecCommits == InitCommits /\ [][NextCommits]_vars

----------------------------------------------------------------------------
(* Claims about the classification of commits, checked under SpecCommits *)

Matching(P(_)) == Cardinality({i \in 1..Len(commits) : P(commits[i])})

IsMaintenanceMessage(c) == AnyKeyword(maintenance_keywords, c)
IsFeatureMessage(c) == AnyKeyword(feature_keywords, c)
IsRefactorMessage(c) == AnyKeyword(refactor_keywords, c)

FeatureOnly(c) == IsFeatureMessage(c) /\ ~IsMaintenanceMessage(c)
RefactorOnly(c) == IsRefactorMessage(c) /\ ~IsFeatureMessage(c) /\ ~IsMaintenanceMessage(c)

FixType(c) == InMessage("fix", c)
FeatType(c) == InMessage("feat", c) /\ ~InMessage("fix", c)
RefactorType(c) == InMessage("refactor", c) /\ ~InMessage("feat", c) /\ ~InMessage("fix", c)

Share(r, count, scale) == r[2] = Len(commits) /\ r[1] = count * scale

\* C20: commit classification is first-match-wins.  In
\* _analyze_maintenance_patterns a message with a maintenance keyword counts
\* as maintenance whatever else it matches, feature wins over refactor, a
\* message matching nothing counts nowhere, and the three percentages sum
\* to at most 100; in _analyze_development_velocity a commit counts under
\* the first of fix, feat, refactor, ... that its message holds.
C20_FirstMatchWins ==
    (pc = "classified" /\ commits # <<>>) =>
        LET mp == ops_metrics.maintenance
            dv == ops_metrics.velocity
        IN  /\ Share(mp["maintenance_commit_percentage"], Matching(IsMaintenanceMessage), 100)
            /\ Share(mp["feature_commit_percentage"], Matching(FeatureOnly), 100)
            /\ Share(mp["refactor_commit_percentage"], Matching(RefactorOnly), 100)
            /\ mp["maintenance_commit_percentage"][1] + mp["feature_commit_percentage"][1]
                 + mp["refactor_commit_percentage"][1] <= 100 * Len(commits)
            /\ Share(dv["fix_commit_ratio"], Matching(FixType), 1)
            /\ Share(dv["feature_commit_ratio"], Matching(FeatType), 1)
            /\ Share(dv["refactor_commit_ratio"], Matching(RefactorType), 1)

\* one commit whose message holds a maintenance and a feature keyword, and
\* one that matches nothing: 50% maintenance, 0% feature, 0% refactor
C20_Witness ==
    /\ pc = "classified"
    /\ Len(commits) = 2
    /\ commits[1] = ("message" :> {"fix", "feature"})
    /\ commits[2] = ("message" :> {"wip"})
    /\ FEq(ops_metrics.maintenance["maintenance_commit_percentage"], Frac(50, 1))
    /\ FEq(ops_metrics.maintenance["feature_commit_percentage"], Frac(0, 1))
    /\ FEq(ops_metrics.velocity["fix_commit_ratio"], Frac(1, 2))
    /\ FEq(ops_metrics.velocity["feature_commit_ratio"], Frac(0, 1))

----------------------------------------------------------------------------
(* Further claims about the calculator, checked under Spec *)

\* the infrastructure penalties other than the CI/CD and the secrets penalty
OtherInfraPenalties(infra) ==
    _calculate_infrastructure_score(
        ("has_cicd_config" :> TRUE) @@ ("pipeline_success_rate" :> Frac(1, 1))
        @@ ("potential_hardcoded_secrets" :> 0) @@ infra)

StatedCicdPenalty(infra) ==
    IF ~Get(infra, "has_cicd_config", FALSE) THEN Pts(20)
    ELSE IF "pipeline_success_rate" \notin DOMAIN infra THEN 0
    ELSE IF FLt(infra["pipeline_success_rate"], 7, 10) THEN Pts(15)
    ELSE IF FLt(infra["pipeline_success_rate"], 9, 10) THEN Pts(5)
    ELSE 0

StatedSecretsPenalty(infra) ==
    LET count == Get(infra, "potential_hardcoded_secrets", 0)
    IN  IF count * Pts(5) < Pts(20) THEN count * Pts(5) ELSE Pts(20)

\* C21: the CI/CD penalty is +2.0 without a CI/CD configuration, whatever
\* the pipeline success rate; with one it is +1.5 for a rate below 0.7, +0.5
\* for a rate in [0.7, 0.9) and 0 otherwise; the secrets penalty is
\* min(0.5 * count, 2.0), never above 2.0.
C21_CicdAndSecretsPenalties ==
    (pc = "scored" /\ metrics # EmptyMap) =>
        LET infra == metrics["infrastructure_analysis"]
        IN  /\ StatedSecretsPenalty(infra) <= Pts(20)
            /\ debt.infrastructure_score =
                  Min(Pts(40), StatedCicdPenalty(infra) + StatedSecretsPenalty(infra)
                                 + OtherInfraPenalties(infra))

\* a repository with a CI/CD configuration, a success rate of 0.7 and 5
\* potential secrets, nothing else charged: 0.5 + 2.0
C21_Witness ==
    /\ pc = "scored"
    /\ metrics # EmptyMap
    /\ LET infra == metrics["infrastructure_analysis"]
       IN  /\ Get(infra, "has_cicd_config", FALSE)
           /\ "pipeline_success_rate" \in DOMAIN infra
           /\ FEq(infra["pipeline_success_rate"], Frac(7, 10))
           /\ Get(infra, "potential_hardcoded_secrets", 0) = 5
           /\ OtherInfraPenalties(infra) = 0
    /\ debt.infrastructure_score = Pts(25)

----------------------------------------------------------------------------
(* CodeAnalyzer._calculate_max_nesting.  A line of the text is kept as its *)
(* kind ("blank", "comment" for a line starting with # or //, "code" for   *)
(* any other), its count of openers ('{', 'if ', 'for ', 'while ') and its *)
(* count of closers ('}').                                                 *)

MaxLines == 3       \* lines of the text
MaxTokens == 2      \* openers, and closers, on one line of code

Lines ==
    [kind : {"code"}, opens : 0..MaxTokens, closes : 0..MaxTokens]
    \cup [kind : {"comment"}, opens : 0..1, closes : 0..1]
    \cup [kind : {"blank"}, opens : {0}, closes : {0}]

\* the loop body without `current_depth = max(0, current_depth)`
NestingStepUnclamped(st, line) ==
    IF line.kind # "code" THEN st
    ELSE LET depth == st.current_depth + line.opens - line.closes
         IN  [current_depth |-> depth, max_depth |-> Max(st.max_depth, depth)]

\* one turn of the loop over the lines
NestingStep(st, line) ==
    IF line.kind # "code" THEN st
    ELSE LET depth == st.current_depth + line.opens - line.closes
         IN  [current_depth |-> Max(0, depth), max_depth |-> Max(st.max_depth, depth)]

RECURSIVE NestingLoop(_)
\* the loop states after each line of text, the state before the loop first
NestingLoop(text) ==
    IF text = <<>> THEN <<[current_depth |-> 0, max_depth |-> 0]>>
    ELSE LET before == NestingLoop(SubSeq(text, 1, Len(text) - 1))
         IN  Append(before, NestingStep(before[Len(before)], text[Len(text)]))

_calculate_max_nesting(text) == NestingLoop(text)[Len(text) + 1].max_depth

InitNesting ==
    /\ content \in SeqsUpTo(Lines, MaxLines)
    /\ nesting = EmptyMap
    /\ layer_files = EmptyMap
    /\ report = EmptyMap
    /\ scans = EmptyMap
    /\ IdleStores
    /\ IdleAnalysis
    /\ metrics = EmptyMap
    /\ debt = NoDebt
    /\ pc = "input"
    /\ results = <<>>
    /\ tree = <<>>
    /\ structure = EmptyMap
    /\ commits = <<>>
    /\ collab = EmptyMap

CalculateMaxNesting ==
    /\ nesting = EmptyMap
    /\ nesting' = [depths |-> [i \in 1..(Len(content) + 1) |-> NestingLoop(content)[i].current_depth],
                   max_nesting |-> _calculate_max_nesting(content)]
    /\ UNCHANGED <<metrics, debt, pc, results, tree, structure, commits, collab, serviceVars,
                   analysisVars, content, layer_files, report>>

NextNesting == CalculateMaxNesting

SpecNesting == InitNesting /\ [][NextNesting]_vars

----------------------------------------------------------------------------
(* Claims about the nesting depth, checked under SpecNesting *)

Processed == {i \in 1..Len(content) : content[i].kind = "code"}

\* depth carried into line i + openers on it - closers on it
LineDepth(i) == nesting.depths[i] + content[i].opens - content[i].closes

SetMax(S) == CHOOSE x \in S : \A y \in S : y <= x

WithoutLine(i) == SubSeq(content, 1, i - 1) \o SubSeq(content, i + 1, Len(content))

CarriedDepthSound ==
    /\ nesting.depths[1] = 0
    /\ \A i \in 1..Len(content) :
          /\ nesting.depths[i + 1] >= 0
          /\ i \in Processed => nesting.depths[i + 1] = Max(0, LineDepth(i))
          /\ i \notin Processed =>
                /\ nesting.depths[i + 1] = nesting.depths[i]
                /\ _calculate_max_nesting(WithoutLine(i)) = nesting.max_nesting

\* C22 as stated: the depth carried from line to line is never negative,
\* blank and comment lines change nothing, and the result is >= 0 and equals
\* the maximum over the processed lines of (depth carried in + openers -
\* closers).
C22_MaxOverProcessedLines ==
    nesting # EmptyMap =>
        /\ CarriedDepthSound
        /\ nesting.max_nesting >= 0
        /\ Processed # {} =>
              nesting.max_nesting = SetMax({LineDepth(i) : i \in Processed})

\* C22: the depth carried from line to line is never negative, blank and
\* comment lines change nothing, and the result is >= 0 and equals the
\* larger of 0 and the maximum over the processed lines of (depth carried
\* in + openers - closers).
C22_MaxOverProcessedLinesOrZero ==
    nesting # EmptyMap =>
        /\ CarriedDepthSound
        /\ nesting.max_nesting >= 0
        /\ nesting.max_nesting = SetMax({0} \cup {LineDepth(i) : i \in Processed})

\* a lone closer, then a comment with an opener, then a line with an opener:
\* the closer is discarded and the result is 1
C22_Witness ==
    /\ nesting # EmptyMap
    /\ Len(content) = 3
    /\ content[1] = [kind |-> "code", opens |-> 0, closes |-> 1]
    /\ content[2] = [kind |-> "comment", opens |-> 1, closes |-> 0]
    /\ content[3] = [kind |-> "code", opens |-> 1, closes |-> 0]
    /\ nesting.depths = <<0, 0, 0, 1>>
    /\ nesting.max_nesting = 1

----------------------------------------------------------------------------
(* JavaAnalyzer._analyze_architecture_patterns.  A Java file is kept as    *)
(* the layer its package name falls in: "controller", "service", "data",   *)
(* "model", "other" for a package of no layer, "none" for a file without a *)
(* package declaration.  package_types is a defaultdict(int): reading a    *)
(* key that is absent inserts it with 0.  The files of one kind share one  *)
(* package.  Scores are in units of 1/10000.                               *)

MaxJavaFiles == 4   \* Java files of the repository

Layers == {"controller", "service", "data", "model"}

PackageKinds == Layers \cup {"other", "none"}

\* a plain dict read with a default: no key is inserted
ReadWithoutInsert(d, k) == d

\* defaultdict.__getitem__: the dict after package_types[k] was read
ReadKey(d, k) == IF k \in DOMAIN d THEN d ELSE (k :> 0) @@ d

\* the loop over self.java_files: package_types[layer] += 1
CountPackageTypes(files) ==
    LET counted == {files[i] : i \in 1..Len(files)} \cap Layers
    IN  [l \in counted |-> Cardinality({i \in 1..Len(files) : files[i] = l})]

_calculate_package_organization_score(package_types) ==
    IF DOMAIN package_types = {} THEN 0
    ELSE LET total_packages == SumSeq([i \in 1..4 |->
                                  Get(package_types, <<"controller", "service", "data", "model">>[i], 0)])
             layer_count == Cardinality({l \in Layers : Get(package_types, l, 0) > 0})
         IN  IF total_packages < 3 THEN Pts(3)
             ELSE IF layer_count >= 3 THEN Pts(9)
             ELSE IF layer_count = 2 THEN Pts(6)
             ELSE Pts(3)

_analyze_architecture_patterns(files) ==
    LET package_types == CountPackageTypes(files)
        \* `a > 0 and b > 0 and c > 0` reads b only when a > 0, c only when b > 0
        afterController == ReadKey(package_types, "controller")
        afterService == IF Get(afterController, "controller", 0) > 0
                        THEN ReadKey(afterController, "service") ELSE afterController
        afterData == IF Get(afterService, "controller", 0) > 0 /\ Get(afterService, "service", 0) > 0
                     THEN ReadKey(afterService, "data") ELSE afterService
        has_layered_architecture ==
            /\ Get(afterData, "controller", 0) > 0
            /\ Get(afterData, "service", 0) > 0
            /\ Get(afterData, "data", 0) > 0
        \* the dict literal reads the four counts before the score is computed
        read == ReadKey(ReadKey(ReadKey(ReadKey(afterData, "controller"), "service"), "data"), "model")
    IN  ("java_total_packages" :> Cardinality({files[i] : i \in 1..Len(files)} \ {"none"}))
        @@ ("java_controller_packages" :> Get(read, "controller", 0))
        @@ ("java_service_packages" :> Get(read, "service", 0))
        @@ ("java_data_packages" :> Get(read, "data", 0))
        @@ ("java_model_packages" :> Get(read, "model", 0))
        @@ ("java_has_layered_architecture" :> has_layered_architecture)
        @@ ("java_package_organization_score" :> _calculate_package_organization_score(read))

InitPatterns ==
    /\ layer_files \in SeqsUpTo(PackageKinds, MaxJavaFiles)
    /\ content = <<>>
    /\ nesting = EmptyMap
    /\ report = EmptyMap
    /\ scans = EmptyMap
    /\ IdleStores
    /\ IdleAnalysis
    /\ metrics = EmptyMap
    /\ debt = NoDebt
    /\ pc = "input"
    /\ results = <<>>
    /\ tree = <<>>
    /\ structure = EmptyMap
    /\ commits = <<>>
    /\ collab = EmptyMap

AnalyzeArchitecturePatterns ==
    /\ pc = "input"
    /\ java_metrics' = _analyze_architecture_patterns(layer_files)
    /\ pc' = "patterns"
    /\ UNCHANGED <<metrics, debt, results, tree, structure, commits, collab, serviceVars,
                   pipeline_records, infra_metrics, quality, build_files, ops_metrics,
                   content, nesting, layer_files, report>>

NextPatterns == AnalyzeArchitecturePatterns

SpecPatterns == InitPatterns /\ [][NextPatterns]_vars

----------------------------------------------------------------------------
(* Claims about the package organization score, checked under SpecPatterns *)

FilesInLayer(l) == Cardinality({i \in 1..Len(layer_files) : layer_files[i] = l})

Classified == Cardinality({i \in 1..Len(layer_files) : layer_files[i] \in Layers})

LayersPresent == Cardinality({l \in Layers : FilesInLayer(l) > 0})

\* C23: the java_package_organization_score reported is one of 0.3, 0.6,
\* 0.9: 0.3 when fewer than 3 files were classified into a layer, otherwise
\* 0.9 with at least 3 of the four layers present, 0.6 with exactly 2, 0.3
\* with at most 1; the 0.0 of _calculate_package_organization_score is
\* never reported.
C23_OrganizationScore ==
    pc = "patterns" =>
        LET score == java_metrics["java_package_organization_score"]
        IN  /\ score \in {Pts(3), Pts(6), Pts(9)}
            /\ score # 0
            /\ score = (IF Classified < 3 THEN Pts(3)
                        ELSE IF LayersPresent >= 3 THEN Pts(9)
                        ELSE IF LayersPresent = 2 THEN Pts(6)
                        ELSE Pts(3))

\* a repository without any Java file in a layer: 0.3 is reported, not 0.0
C23_Witness ==
    /\ pc = "patterns"
    /\ Len(layer_files) = 2
    /\ Classified = 0
    /\ java_metrics["java_package_organization_score"] = Pts(3)

----------------------------------------------------------------------------
(* EnhancedDebtScoreCalculator._calculate_code_quality_score: the generic  *)
(* test-ratio tiers, the penalties of the Java and of the .NET profile     *)
(* when the profile is a non-empty dict, and the .NET architecture bonus.  *)

JavaProfiles ==
    {EmptyMap} \cup
    {("java_test_to_main_ratio" :> r) @@ ("java_has_layered_architecture" :> l) @@ g @@ p :
        r \in {Frac(0, 1), Frac(1, 2)}, l \in BOOLEAN,
        g \in Opt("java_god_class_ratio", {Frac(2, 10)}),
        p \in Opt("java_package_organization_score", {Frac(3, 10), Frac(9, 10)})}

DotnetProfiles ==
    {EmptyMap} \cup
    {("dotnet_test_file_ratio" :> r) @@ g @@ c @@ l :
        r \in {Frac(0, 1), Frac(1, 2)},
        g \in Opt("dotnet_uses_legacy_framework", {TRUE}),
        c \in Opt("dotnet_has_clean_architecture", BOOLEAN),
        l \in Opt("dotnet_has_layered_architecture", BOOLEAN)}

EnhancedInputs ==
    {t @@ j @@ d :
        t \in Opt("test_to_code_ratio", {Frac(0, 1), Frac(1, 2)}),
        j \in {EmptyMap} \cup {"java_analysis" :> x : x \in JavaProfiles},
        d \in {EmptyMap} \cup {"dotnet_analysis" :> x : x \in DotnetProfiles}}

JavaCodePenalties(java_analysis) ==
    LET java_test_ratio == Get(java_analysis, "java_test_to_main_ratio", Frac(0, 1))
        god_class_ratio == Get(java_analysis, "java_god_class_ratio", Frac(0, 1))
        package_score == Get(java_analysis, "java_package_organization_score", Frac(1, 1))
        violations == Get(java_analysis, "checkstyle_violations", 0)
    IN  (IF FLt(java_test_ratio, 2, 10) THEN Pts(10)
         ELSE IF FLt(java_test_ratio, 5, 10) THEN Pts(5) ELSE 0)
        + (IF FGt(god_class_ratio, 1, 10) THEN Pts(15)
           ELSE IF FGt(god_class_ratio, 5, 100) THEN Pts(10) ELSE 0)
        + (IF FLt(package_score, 5, 10) THEN Pts(10)
           ELSE IF FLt(package_score, 7, 10) THEN Pts(5) ELSE 0)
        + (IF Get(java_analysis, "checkstyle_available", FALSE)
           THEN IF violations > 100 THEN Pts(10) ELSE IF violations > 50 THEN Pts(5) ELSE 0
           ELSE 0)

DotnetCodePenalties(dotnet_analysis) ==
    LET dotnet_test_ratio == Get(dotnet_analysis, "dotnet_test_file_ratio", Frac(0, 1))
        god_class_ratio == Get(dotnet_analysis, "dotnet_god_class_ratio", Frac(0, 1))
    IN  (IF FLt(dotnet_test_ratio, 2, 10) THEN Pts(10)
         ELSE IF FLt(dotnet_test_ratio, 5, 10) THEN Pts(5) ELSE 0)
        + (IF FGt(god_class_ratio, 1, 10) THEN Pts(15)
           ELSE IF FGt(god_class_ratio, 5, 100) THEN Pts(10) ELSE 0)
        + (IF Get(dotnet_analysis, "dotnet_uses_legacy_framework", FALSE) THEN Pts(15) ELSE 0)

\* both bonuses granted when both patterns are detected
DotnetArchitectureBonusBoth(dotnet_analysis) ==
    (IF Get(dotnet_analysis, "dotnet_has_clean_architecture", FALSE) THEN Pts(5) ELSE 0)
    + (IF Get(dotnet_analysis, "dotnet_has_layered_architecture", FALSE) THEN Pts(3) ELSE 0)

\* score -= 0.5 / elif: score -= 0.3
DotnetArchitectureBonus(dotnet_analysis) ==
    IF Get(dotnet_analysis, "dotnet_has_clean_architecture", FALSE) THEN Pts(5)
    ELSE IF Get(dotnet_analysis, "dotnet_has_layered_architecture", FALSE) THEN Pts(3)
    ELSE 0

\* the score before `min(max(score, 0.0), 4.0)`
EnhancedCodeQualityUnclamped(m) ==
    LET java_analysis == Get(m, "java_analysis", EmptyMap)
        dotnet_analysis == Get(m, "dotnet_analysis", EmptyMap)
    IN  TestCoveragePenalty(m)
        + (IF java_analysis # EmptyMap THEN JavaCodePenalties(java_analysis) ELSE 0)
        + (IF dotnet_analysis # EmptyMap
           THEN DotnetCodePenalties(dotnet_analysis) - DotnetArchitectureBonus(dotnet_analysis)
           ELSE 0)

EnhancedCodeQualityScore(m) == Min(Max(EnhancedCodeQualityUnclamped(m), 0), Pts(40))

InitEnhanced ==
    /\ metrics \in EnhancedInputs
    /\ debt = NoDebt
    /\ pc = "input"
    /\ IdleRest

CalculateEnhancedCodeQuality ==
    /\ pc = "input"
    /\ debt' = [score |-> EnhancedCodeQualityScore(metrics),
                unclamped |-> EnhancedCodeQualityUnclamped(metrics)]
    /\ pc' = "enhanced"
    /\ UNCHANGED <<metrics, results, tree, structure, commits, collab, serviceVars,
                   analysisVars, detailVars>>

NextEnhanced == CalculateEnhancedCodeQuality

SpecEnhanced == InitEnhanced /\ [][NextEnhanced]_vars

----------------------------------------------------------------------------
(* Claims about the enhanced code quality score, checked under SpecEnhanced *)

Profile(k) == Get(metrics, k, EmptyMap)

\* the same metrics with no architecture pattern detected in either profile
WithoutDetection ==
    [k \in DOMAIN metrics |->
        IF k = "java_analysis" /\ metrics[k] # EmptyMap
        THEN ("java_has_layered_architecture" :> FALSE) @@ metrics[k]
        ELSE IF k = "dotnet_analysis" /\ metrics[k] # EmptyMap
        THEN [f \in DOMAIN metrics[k] \ {"dotnet_has_clean_architecture",
                                          "dotnet_has_layered_architecture"} |-> metrics[k][f]]
        ELSE metrics[k]]

DotnetClean == Get(Profile("dotnet_analysis"), "dotnet_has_clean_architecture", FALSE)
DotnetLayered == Get(Profile("dotnet_analysis"), "dotnet_has_layered_architecture", FALSE)
JavaLayered == Get(Profile("java_analysis"), "java_has_layered_architecture", FALSE)

ScoreInRange ==
    /\ debt.score >= 0
    /\ debt.score <= Pts(40)
    /\ debt.score = Min(Max(debt.unclamped, 0), Pts(40))

\* C24 as stated: the score is in [0, 4], and whenever a profile present in
\* the metrics, Java or .NET, reports clean or layered architecture, the
\* score before the clamp is lower than without the detection by 0.5 for
\* clean architecture, otherwise by 0.3 for layered.
C24_BonusForEitherProfile ==
    pc = "enhanced" =>
        /\ ScoreInRange
        /\ debt.unclamped = EnhancedCodeQualityUnclamped(WithoutDetection)
                              - (IF DotnetClean THEN Pts(5)
                                 ELSE IF DotnetLayered \/ JavaLayered THEN Pts(3)
                                 ELSE 0)

\* C24: the score is in [0, 4], and whenever the .NET profile reports clean
\* or layered architecture, the score before the clamp is lower than
\* without the detection by 0.5 for clean architecture, otherwise by 0.3
\* for layered; the layered architecture of a Java profile changes nothing.
C24_BonusForDotnetOnly ==
    pc = "enhanced" =>
        /\ ScoreInRange
        /\ debt.unclamped = EnhancedCodeQualityUnclamped(WithoutDetection)
                              - (IF DotnetClean THEN Pts(5)
                                 ELSE IF DotnetLayered THEN Pts(3)
                                 ELSE 0)

\* a .NET profile with both patterns detected beside a layered Java
\* profile: 0.5 off, once
C24_Witness ==
    /\ pc = "enhanced"
    /\ DotnetClean /\ DotnetLayered /\ JavaLayered
    /\ debt.unclamped = EnhancedCodeQualityUnclamped(WithoutDetection) - Pts(5)

----------------------------------------------------------------------------
(* Further claims about local assessments of the calculator, under Spec *)

\* C25: with no commits and no pipelines, as in every local assessment,
\* analyze_operations returns its defaults without failing and the
\* operations score is exactly 4.0, the maximum: 1.5 for the velocity, 1.5
\* for the deployments, 1.0 for the single contributor.
C25_NoHistoryScoresWorst ==
    pc = "local" =>
        /\ debt.raw_metrics["operations_analysis"]
              = ("commits_per_week" :> Frac(0, 1)) @@ ("avg_commit_size" :> 0)
        /\ debt.operations_score = Pts(15) + Pts(15) + Pts(10)
        /\ debt.operations_score = Pts(40)

\* the scenario repository assessed locally
C25_Witness ==
    /\ pc = "local"
    /\ IsScenario(metrics)
    /\ debt.operations_score = Pts(40)
    /\ DOMAIN debt.raw_metrics["operations_analysis"] = {"commits_per_week", "avg_commit_size"}

----------------------------------------------------------------------------
(* Further claims about the scans of the API, checked under SpecService *)

\* the scan results of status 'completed': stored, or held by the scan
\* that produced them
CompletedResults ==
    {r \in {SCAN_RESULTS_STORE[i] : i \in 1..Len(SCAN_RESULTS_STORE)}
           \cup UNION {{scans[t].results[i] : i \in 1..Len(scans[t].results)} : t \in DOMAIN scans} :
        Get(r, "status", "") = "completed"}

\* C26: in every 'completed' scan result of the API the architecture,
\* infrastructure and operations scores are 3.5, 4.0 and 4.0 whatever the
\* repository holds, so the overall score is 2.85 + 0.25 * code quality
\* score, within [2.85, 3.85], and the risk level is High or Critical.
C26_StubScoresFixed ==
    \A r \in CompletedResults :
        LET d == r["debt_metrics"]
        IN  /\ d.architecture_score = Pts(35)
            /\ d.infrastructure_score = Pts(40)
            /\ d.operations_score = Pts(40)
            /\ 4 * d.overall_score = 4 * (Pts(28) + 500) + d.code_quality_score
            /\ d.overall_score >= Pts(28) + 500
            /\ d.overall_score <= Pts(38) + 500
            /\ r["risk_level"] \in {"High", "Critical"}

\* a stored result of each kind: code quality 0.0 (High) and 2.5 (Critical)
C26_Witness ==
    /\ \E r \in CompletedResults :
          r["debt_metrics"].code_quality_score = 0 /\ r["risk_level"] = "High"
    /\ \E r \in CompletedResults :
          r["debt_metrics"].code_quality_score = Pts(25) /\ r["risk_level"] = "Critical"
    /\ Len(SCAN_RESULTS_STORE) = 2

----------------------------------------------------------------------------
(* Further claims about local assessments, checked under SpecAssess *)

InDebtRange(v) == v >= 0 /\ v <= Pts(40)

\* the DebtMetricModel entries of the assessments stored so far
ReportedMetrics ==
    UNION {{assessments_db[id].metrics[k] : k \in 1..4} : id \in DOMAIN assessments_db}

SeverityRank(s) ==
    IF s = "low" THEN 0 ELSE IF s = "medium" THEN 1 ELSE IF s = "high" THEN 2 ELSE 3

\* C27: for category scores in [0, 4] the mappings against the threshold 7.0
\* are degenerate: the severity is 'high' for a score >= 2.8 and 'critical'
\* below, never 'low' or 'medium', so a higher score never gets a more
\* severe label than a lower one; and the recommendations are always the
\* four category recommendations, never 'Maintain current quality standards'.
C27_DegenerateMappings ==
    /\ \A x \in ReportedMetrics :
          InDebtRange(x.value) =>
              /\ x.threshold = Pts(70)
              /\ x.severity = (IF x.value >= Pts(28) THEN "high" ELSE "critical")
              /\ \A y \in ReportedMetrics :
                    (InDebtRange(y.value) /\ x.value <= y.value)
                        => SeverityRank(y.severity) <= SeverityRank(x.severity)
    /\ \A id \in DOMAIN assessments_db :
          (\A k \in 1..4 : InDebtRange(assessments_db[id].metrics[k].value)) =>
              assessments_db[id].recommendations
                  = <<"code_quality", "architecture", "infrastructure", "operations">>

\* a stored assessment with a code quality of 0.0 labelled critical and an
\* operations score of 4.0 labelled high
C27_Witness ==
    \E id \in DOMAIN assessments_db :
        LET a == assessments_db[id]
        IN  /\ a.metrics[1].value = 0 /\ a.metrics[1].severity = "critical"
            /\ a.metrics[4].value = Pts(40) /\ a.metrics[4].severity = "high"
            /\ Len(a.recommendations) = 4

\* GET /api/scan/status: the scan_distribution of the stored results
get_scan_status ==
    [total_scanned_projects |-> Len(SCAN_RESULTS_STORE),
     total_recommendations |-> Len(RECOMMENDATIONS_STORE),
     scan_distribution |->
        [st \in {"completed", "completed_basic", "completed_minimal", "failed"} |->
            Cardinality({i \in 1..Len(SCAN_RESULTS_STORE) : SCAN_RESULTS_STORE[i]["status"] = st})]]

\* C28: every stored scan result has status 'completed' or
\* 'completed_basic', so get_scan_status counts no 'failed' and no
\* 'completed_minimal' result; and every stored recommendation carries the
\* scan_id of a stored scan result.
C28_OnlySuccessfulStored ==
    /\ \A i \in 1..Len(SCAN_RESULTS_STORE) :
          SCAN_RESULTS_STORE[i]["status"] \in {"completed", "completed_basic"}
    /\ get_scan_status.scan_distribution["failed"] = 0
    /\ get_scan_status.scan_distribution["completed_minimal"] = 0
    /\ \A j \in 1..Len(RECOMMENDATIONS_STORE) :
          \E i \in 1..Len(SCAN_RESULTS_STORE) :
              SCAN_RESULTS_STORE[i]["scan_id"] = RECOMMENDATIONS_STORE[j]["scan_id"]

\* a batch that met a failed and a basic result, beside a completed single
\* scan with its recommendations: two results stored
C28_Witness ==
    /\ \E t \in DOMAIN scans :
          /\ scans[t].kind = "batch"
          /\ scans[t].failed_scans = 1
          /\ scans[t].successful_scans = 1
    /\ get_scan_status.scan_distribution["completed_basic"] = 1
    /\ get_scan_status.scan_distribution["completed"] = 1
    /\ get_scan_status.total_scanned_projects = 2
    /\ get_scan_status.total_recommendations > 0

----------------------------------------------------------------------------
(* The lifecycle of an assessment id, checked under SpecAssess *)

\* the ids run_assessment has answered with the given status code
Answered(code) ==
    {response[k].id : k \in {j \in 1..Len(response) :
        response[j].op = "run_assessment" /\ response[j].status_code = code}}

\* completed exactly when stored, failed never stored, in progress not yet
StatusMatchesStore ==
    /\ DOMAIN assessments_db \subseteq DOMAIN running_assessments
    /\ \A id \in DOMAIN running_assessments :
          /\ running_assessments[id] \in {"in_progress", "completed", "failed"}
          /\ (running_assessments[id] = "completed") <=> (id \in DOMAIN assessments_db)
          /\ (running_assessments[id] = "completed") <=> (id \in Answered(200))
          /\ (running_assessments[id] = "failed") => (id \notin DOMAIN assessments_db)
          /\ (running_assessments[id] = "in_progress") <=> (id \in DOMAIN scans)

\* one step of an id: created in progress, then completed or failed once
StatusStep ==
    /\ DOMAIN running_assessments \subseteq DOMAIN running_assessments'
    /\ \A id \in DOMAIN running_assessments' :
          IF id \in DOMAIN running_assessments
          THEN \/ running_assessments'[id] = running_assessments[id]
               \/ /\ running_assessments[id] = "in_progress"
                  /\ running_assessments'[id] \in {"completed", "failed"}
          ELSE running_assessments'[id] = "in_progress"

----------------------------------------------------------------------------
(* GitLabDebtScannerAgent.scan_projects and generate_report.  A project    *)
(* is its position in the listing; scan_single_project either raises (the  *)
(* clone fails) or returns the debt score of the metrics of the clone.     *)
(* The timestamps of the results and of the report are left out.           *)

MaxProjects == 12   \* projects in one listing
MaxVaried == 2      \* leading projects whose clone is any of ProjectMetrics

TidyCode ==
    ("code_files" :> 10) @@ ("test_files" :> 5)
    @@ ("test_to_code_ratio" :> Frac(5, 10)) @@ ("avg_lines_per_file" :> Frac(100, 1))
TidyArch ==
    ("has_readme" :> TRUE) @@ ("readme_length" :> 500) @@ ("documentation_files" :> 2)
    @@ ("has_docker_config" :> TRUE) @@ ("has_api_specifications" :> TRUE)
    @@ ("has_mvc_pattern" :> TRUE)
TidyInfra ==
    ("has_cicd_config" :> TRUE) @@ ("pipeline_success_rate" :> Frac(1, 1))
    @@ ("has_gitignore" :> TRUE) @@ ("is_containerized" :> TRUE)
    @@ ("has_dockerfile" :> TRUE) @@ ("has_prometheus_config" :> TRUE)
    @@ ("logging_usage_ratio" :> Frac(1, 2))

\* a repository with tidy code only: overall score 2.85
PlainMetrics == RawMetrics(TidyCode, ScenarioArch, ScenarioInfra, EmptyMap)

\* clones with the overall scores 3.475, 2.85, 1.8, 1.0 and 0.0
ProjectMetrics ==
    {RawMetrics(ScenarioStructure, ScenarioArch, ScenarioInfra, EmptyMap),
     PlainMetrics,
     RawMetrics(TidyCode, TidyArch, ScenarioInfra, EmptyMap),
     RawMetrics(TidyCode, TidyArch, ScenarioInfra, HealthyOps),
     RawMetrics(TidyCode, TidyArch, TidyInfra, HealthyOps)}

\* what scan_single_project does with the project at position k
ProjectOutcomes(k) ==
    {[cloned |-> FALSE, raw |-> EmptyMap]}
    \cup {[cloned |-> TRUE, raw |-> m] :
            m \in IF k <= MaxVaried THEN ProjectMetrics ELSE {PlainMetrics}}

\* the dict scan_projects appends for one project
ProjectResult(name, outcome) ==
    IF outcome.cloned
    THEN LET debt_metrics == calculate_debt_score(outcome.raw)
         IN  ("project_info" :> ("name" :> name)) @@ ("debt_metrics" :> debt_metrics)
             @@ ("risk_level" :> _get_risk_level(debt_metrics.overall_score))
    ELSE ("project_info" :> ("name" :> name)) @@ ("error" :> "clone")

RiskLevels == {"Low", "Medium", "High", "Critical"}

\* the entry put after the entries sorted so far
InsertAtEnd(sorted, x) == Append(sorted, x)

\* one step of debt_projects.sort(key=lambda x: x[1], reverse=True): the
\* sort is stable, an entry goes after the entries whose score is not lower
InsertByScore(sorted, x) ==
    LET k == Cardinality({i \in 1..Len(sorted) : sorted[i][2] >= x[2]})
    IN  SubSeq(sorted, 1, k) \o <<x>> \o SubSeq(sorted, k + 1, Len(sorted))

RECURSIVE SortByScore(_)
SortByScore(s) ==
    IF s = <<>> THEN <<>>
    ELSE InsertByScore(SortByScore(SubSeq(s, 1, Len(s) - 1)), s[Len(s)])

HasDebtMetrics(r) == "debt_metrics" \in DOMAIN r

CountWhere(s, Test(_)) == Cardinality({i \in 1..Len(s) : Test(s[i])})

\* GitLabDebtScannerAgent._generate_recommendations(successful_results);
\* n / total > p / 10 is n * 10 > p * total
_generate_recommendations_of_results(res) ==
    IF res = <<>> THEN <<>>
    ELSE LET total_projects == Len(res)
             Raw(r, part) == r["debt_metrics"].raw_metrics[part]
             NoCicd(r) == ~Get(Raw(r, "infrastructure_analysis"), "has_cicd_config", FALSE)
             NoTests(r) == FLt(Get(Raw(r, "code_analysis"), "test_to_code_ratio", Frac(0, 1)), 1, 10)
             NoDocs(r) == ~Get(Raw(r, "architecture_analysis"), "has_readme", FALSE)
             NoContainers(r) == ~Get(Raw(r, "infrastructure_analysis"), "is_containerized", FALSE)
             IsCritical(r) == Get(r, "risk_level", "None") = "Critical"
             no_cicd == CountWhere(res, NoCicd)
             no_tests == CountWhere(res, NoTests)
             no_docs == CountWhere(res, NoDocs)
             no_containers == CountWhere(res, NoContainers)
             critical_projects == CountWhere(res, IsCritical)
         IN  (IF no_cicd * 10 > 5 * total_projects
              THEN <<[about |-> "cicd", projects |-> no_cicd]>> ELSE <<>>)
             \o (IF no_tests * 10 > 7 * total_projects
                 THEN <<[about |-> "tests", projects |-> no_tests]>> ELSE <<>>)
             \o (IF no_docs * 10 > 6 * total_projects
                 THEN <<[about |-> "docs", projects |-> no_docs]>> ELSE <<>>)
             \o (IF no_containers * 10 > 8 * total_projects
                 THEN <<[about |-> "containers", projects |-> no_containers]>> ELSE <<>>)
             \o (IF critical_projects > 0
                 THEN <<[about |-> "critical", projects |-> critical_projects]>> ELSE <<>>)

generate_report(res) ==
    LET IsFailed(r) == "error" \in DOMAIN r
        successful_results == SelectSeq(res, HasDebtMetrics)
        risk_counts ==
            [level \in RiskLevels |->
                Cardinality({i \in 1..Len(successful_results) :
                    Get(successful_results[i], "risk_level", "Unknown") = level})]
        debt_projects ==
            [i \in 1..Len(successful_results) |->
                <<successful_results[i]["project_info"]["name"],
                  successful_results[i]["debt_metrics"].overall_score,
                  successful_results[i]["risk_level"]>>]
        sorted == SortByScore(debt_projects)
    IN  [scan_summary |->
            [total_projects |-> Len(res),
             successful_scans |-> CountWhere(res, HasDebtMetrics),
             failed_scans |-> CountWhere(res, IsFailed)],
         risk_distribution |-> risk_counts,
         top_debt_projects |-> SubSeq(sorted, 1, Min(10, Len(sorted))),
         recommendations |-> _generate_recommendations_of_results(successful_results),
         detailed_results |-> res]

InitReport ==
    /\ results = <<>>
    /\ report = EmptyMap
    /\ content = <<>>
    /\ nesting = EmptyMap
    /\ layer_files = EmptyMap
    /\ scans = EmptyMap
    /\ IdleStores
    /\ IdleAnalysis
    /\ metrics = EmptyMap
    /\ debt = NoDebt
    /\ pc = "input"
    /\ tree = <<>>
    /\ structure = EmptyMap
    /\ commits = <<>>
    /\ collab = EmptyMap

reportRest ==
    <<metrics, debt, pc, tree, structure, commits, collab, serviceVars, analysisVars,
      content, nesting, layer_files>>

\* one turn of the loop of scan_projects
ScanProjectsStep ==
    /\ report = EmptyMap
    /\ Len(results) < MaxProjects
    /\ \E outcome \in ProjectOutcomes(Len(results) + 1) :
          results' = Append(results, ProjectResult(Len(results) + 1, outcome))
    /\ UNCHANGED <<report, reportRest>>

\* generate_report(results) on the list scan_projects returned
GenerateReport ==
    /\ report = EmptyMap
    /\ report' = generate_report(results)
    /\ UNCHANGED <<results, reportRest>>

NextReport == ScanProjectsStep \/ GenerateReport

SpecReport == InitReport /\ [][NextReport]_vars

----------------------------------------------------------------------------
(* Claims about the report, checked under SpecReport *)

SuccessfulProjects == {i \in 1..Len(results) : HasDebtMetrics(results[i])}

ScoreOf(i) == results[i]["debt_metrics"].overall_score

\* C30: the summary of a report is consistent with the result list it was
\* made of: successful_scans + failed_scans = total_projects, the four
\* risk_distribution counts add up to successful_scans, and
\* top_debt_projects holds at most 10 entries, each a different successful
\* project with its score, in order of non-increasing overall_score, with a
\* project of the highest overall_score first whenever a scan succeeded.
C30_ReportConsistent ==
    report # EmptyMap =>
        LET summary == report.scan_summary
            top == report.top_debt_projects
        IN  /\ summary.total_projects = Len(results)
            /\ summary.successful_scans + summary.failed_scans = summary.total_projects
            /\ summary.successful_scans = Cardinality(SuccessfulProjects)
            /\ report.risk_distribution["Low"] + report.risk_distribution["Medium"]
                 + report.risk_distribution["High"] + report.risk_distribution["Critical"]
                 = summary.successful_scans
            /\ Len(top) = Min(10, summary.successful_scans)
            /\ \A k \in 1..Len(top) :
                  /\ top[k][1] \in SuccessfulProjects
                  /\ top[k][2] = ScoreOf(top[k][1])
                  /\ top[k][3] = results[top[k][1]]["risk_level"]
            /\ \A k, l \in 1..Len(top) :
                  /\ (k < l) => top[k][2] >= top[l][2]
                  /\ (k # l) => top[k][1] # top[l][1]
            /\ \A i \in SuccessfulProjects : \A k \in 1..Len(top) :
                  /\ ScoreOf(i) <= top[1][2]
                  /\ (i \notin {top[l][1] : l \in 1..Len(top)}) => ScoreOf(i) <= top[k][2]

\* a report of eleven successful scans and a failed one: the top ten leave
\* out a project, and the first project scanned is not the first reported
C30_Witness ==
    /\ report # EmptyMap
    /\ report.scan_summary.successful_scans = 11
    /\ report.scan_summary.failed_scans = 1
    /\ Len(report.top_debt_projects) = 10
    /\ report.top_debt_projects[1][1] # 1
    /\ 1 \in SuccessfulProjects
    /\ 1 \notin {report.top_debt_projects[l][1] : l \in 1..10}

====
